---- MODULE Spec2Model ----
(***************************************************************************)
(* Indexing and query engine of electrs: the confirmed index kept by the   *)
(* Indexer, the mempool mirror, the Query composition layer                *)
(* (src/src/new_index/query.rs) and the key/value Store                    *)
(* (src/src/store.rs).                                                     *)
(***************************************************************************)
EXTENDS Integers, Sequences, FiniteSets, TLC

VARIABLES
    nodeTip,     \* best block hash of the node
    nodePool,    \* txids in the node's mempool (getrawmempool)
    store,       \* committed index rows, one set per key family
    ipc,         \* Indexer position: idle / scanning / rollback / applying
    todo,        \* blocks the running tick still has to apply, ascending
    ready,       \* reorder buffer: blocks whose rows have been generated
    fails,       \* failed ticks so far
    target,      \* node tip read by the running tick
    tickCommits, \* block batches committed by the running tick
    mp,          \* mempool mirror: txstore, history, edges, feeinfo
    readers,     \* number of holders of the mempool read lock
    polled,      \* a poll update ran since the last broadcast_raw returned
    q,           \* the request handler: operation, position, locals, result
    db,          \* Store: rows a get or a new iterator sees, key -> value
    disk,        \* Store: rows that survive a crash
    wr,          \* Store::persist: position and the WriteBatch
    rd,          \* a reader of the Store: get or scan, its iterator, its rows
    snaps,       \* the contents the Store had between batches
    persists,    \* persist calls so far
    upd,         \* the mempool poll in progress: the write lock, its work
    spentAll     \* outpoints spent at every moment of the running utxo call

vars == <<nodeTip, nodePool, store, ipc, todo, ready, fails, target,
          tickCommits, mp, readers, polled, q, db, disk, wr, rd, snaps,
          persists, upd, spentAll>>

kvVars == <<db, disk, wr, rd, snaps, persists>>
engineVars == <<nodeTip, nodePool, store, ipc, todo, ready, fails, target,
                tickCommits, mp, readers, polled, q>>

nodeVars == <<nodeTip, nodePool>>
indexVars == <<store, ipc, todo, ready, fails, target, tickCommits>>
poolVars == <<mp, readers, polled>>

(***************************************************************************)
(* Bounds.                                                                 *)
(***************************************************************************)
MaxFails == 1
\* persist calls in a run, and rows in one batch
MaxPersists == 2
MaxBatch == 2
\* capacity of the Fetcher's reorder buffer
ReorderCap == 2
\* length of the strings tried as request parameters
MaxParamLen == 2

(***************************************************************************)
(* The ledger the node can serve: a block tree and its transactions.       *)
(***************************************************************************)
\* Option<T>: the empty tuple is None, <<x>> is Some(x).
None == << >>
Some(x) == <<x>>
NoHash == "none"
NullTxid == "null"

Scripts == {"X", "Y"}
Txids == {"cb1", "t2", "t3", "t4"}
Hashes == {"G", "A1", "A2", "A3", "B2"}

\* An input is its previous outpoint <<txid, vout>>; the coinbase input
\* carries the null outpoint.
TxInputs(t) ==
    CASE t = "cb1" -> << <<NullTxid, 0>> >>
      [] t = "t2"  -> << <<"cb1", 0>> >>
      [] t = "t3"  -> << <<"cb1", 0>> >>
      [] t = "t4"  -> << <<"t2", 1>> >>

\* An output is <<script, value>>; vout i is element i + 1.
TxOutputs(t) ==
    CASE t = "cb1" -> << <<"X", 50>>, <<"X", 25>> >>
      [] t = "t2"  -> << <<"Y", 30>>, <<"X", 19>> >>
      [] t = "t3"  -> << <<"X", 48>> >>
      [] t = "t4"  -> << <<"Y", 18>> >>

TxOrd(t) ==
    CASE t = "cb1" -> 1 [] t = "t2" -> 2 [] t = "t3" -> 3 [] t = "t4" -> 4

is_coinbase_input(inp) == inp[1] = NullTxid

BlockHeight(b) ==
    CASE b = "G" -> 0 [] b = "A1" -> 1 [] b = "A2" -> 2 [] b = "A3" -> 3
      [] b = "B2" -> 2

BlockPrev(b) ==
    CASE b = "G" -> NoHash [] b = "A1" -> "G" [] b = "A2" -> "A1"
      [] b = "A3" -> "A2" [] b = "B2" -> "A1"

BlockTxs(b) ==
    CASE b = "G" -> << >> [] b = "A1" -> <<"cb1">> [] b = "A2" -> <<"t2">>
      [] b = "A3" -> <<"t4">> [] b = "B2" -> <<"t3">>

\* Accumulated work: the node only moves to a chain with more work.
BlockWork(b) ==
    CASE b = "G" -> 0 [] b = "A1" -> 1 [] b = "A2" -> 2 [] b = "A3" -> 3
      [] b = "B2" -> 4

RECURSIVE ChainOf(_)
\* The blocks from genesis to b, as the set of their hashes.
ChainOf(b) == IF b = NoHash THEN {} ELSE {b} \cup ChainOf(BlockPrev(b))

Range(s) == {s[i] : i \in DOMAIN s}

ChainTxs(b) == UNION {Range(BlockTxs(c)) : c \in ChainOf(b)}

\* The outpoints consumed by the transactions ts.
SpentBy(ts) ==
    UNION {Range(TxInputs(t)) : t \in ts} \ {<<NullTxid, 0>>}

\* The outpoints created by the transactions ts.
FundedBy(ts) ==
    UNION {{<<t, o - 1>> : o \in DOMAIN TxOutputs(t)} : t \in ts}

(***************************************************************************)
(* Schema rows.  The committed index is a record with one set of rows per  *)
(* key family:                                                             *)
(*   Hh   <<height, blockhash>>                  height -> hash            *)
(*   B    <<blockhash, prev_blockhash>>          block header              *)
(*   M    <<blockhash, tx_count>>                block meta                *)
(*   X    <<blockhash, txids>>                   block -> txids            *)
(*   hist <<script, height, txid, kind, index>>  tx history                *)
(*   h    <<script, height, txid, vout, value>>  funding stats             *)
(*   S    <<prev_txid, prev_vout, txid, vin>>    spending edge             *)
(*   T    <<txid, vout, value, script>>          txo cache                 *)
(*   C    <<txid, blockhash, height, position>>  tx confirm                *)
(***************************************************************************)
EmptyRows ==
    [Hh |-> {}, B |-> {}, M |-> {}, X |-> {}, hist |-> {}, h |-> {},
     S |-> {}, T |-> {}, C |-> {}]

Families == DOMAIN EmptyRows

RowsUnion(a, b) == [f \in Families |-> a[f] \cup b[f]]
RowsMinus(a, b) == [f \in Families |-> a[f] \ b[f]]

PrevScript(op) == TxOutputs(op[1])[op[2] + 1][1]
PrevValue(op) == TxOutputs(op[1])[op[2] + 1][2]

\* Rows of one transaction: inputs first (spending edge and spending
\* history row; none for the coinbase input), then outputs (funding rows
\* and txo cache rows), then the confirm row.
TxRows(t, b, pos) ==
    LET hgt == BlockHeight(b)
        ins == {i \in DOMAIN TxInputs(t) : ~is_coinbase_input(TxInputs(t)[i])}
        outs == DOMAIN TxOutputs(t)
    IN [EmptyRows EXCEPT
         !.S = {<<TxInputs(t)[i][1], TxInputs(t)[i][2], t, i - 1>> : i \in ins},
         !.hist = {<<PrevScript(TxInputs(t)[i]), hgt, t, "spending", i - 1>> :
                      i \in ins}
                  \cup {<<TxOutputs(t)[o][1], hgt, t, "funding", o - 1>> :
                          o \in outs},
         !.h = {<<TxOutputs(t)[o][1], hgt, t, o - 1, TxOutputs(t)[o][2]>> :
                  o \in outs},
         !.T = {<<t, o - 1, TxOutputs(t)[o][2], TxOutputs(t)[o][1]>> :
                  o \in outs},
         !.C = {<<t, b, hgt, pos - 1>>}]

RECURSIVE TxsRows(_, _, _)
TxsRows(txs, b, pos) ==
    IF pos > Len(txs) THEN EmptyRows
    ELSE RowsUnion(TxRows(txs[pos], b, pos), TxsRows(txs, b, pos + 1))

\* The single write batch of a block: every schema row implied by it.
BlockRows(b) ==
    RowsUnion([EmptyRows EXCEPT
                 !.Hh = {<<BlockHeight(b), b>>},
                 !.B = {<<b, BlockPrev(b)>>},
                 !.M = {<<b, Len(BlockTxs(b))>>},
                 !.X = {<<b, BlockTxs(b)>>}],
              TxsRows(BlockTxs(b), b, 1))

(***************************************************************************)
(* Reads of the committed index used by the Indexer.                       *)
(***************************************************************************)
Max(S) == CHOOSE x \in S : \A y \in S : y <= x

best_height(st) == Max({r[1] : r \in st.Hh})
best_hash(st) == (CHOOSE r \in st.Hh : r[1] = best_height(st))[2]

\* The deepest block of the node's chain that the local height map holds.
CommonAncestor(st, tip) ==
    CHOOSE b \in ChainOf(tip) :
        /\ <<BlockHeight(b), b>> \in st.Hh
        /\ \A c \in ChainOf(tip) :
              <<BlockHeight(c), c>> \in st.Hh => BlockHeight(c) <= BlockHeight(b)

RECURSIVE Ascending(_, _)
\* The blocks of bs (one per height) as a sequence from height lo upwards.
Ascending(bs, lo) ==
    IF bs = {} THEN << >>
    ELSE LET b == CHOOSE c \in bs : BlockHeight(c) = lo
         IN <<b>> \o Ascending(bs \ {b}, lo + 1)

NewBlocks(st, tip) ==
    LET ca == CommonAncestor(st, tip)
    IN Ascending({b \in ChainOf(tip) : BlockHeight(b) > BlockHeight(ca)},
                 BlockHeight(ca) + 1)

\* Local blocks above the common ancestor.
Orphans(st, tip) ==
    {r[2] : r \in {x \in st.Hh : x[1] > BlockHeight(CommonAncestor(st, tip))}}

\* RollbackRows that finds the rows to delete by key prefix only: a spending
\* edge is keyed by the outpoint it spends, not by the spender.
RollbackRowsByKey(st, orphans) ==
    LET txids == UNION {Range(x[2]) : x \in {y \in st.X : y[1] \in orphans}}
        hts == {r[1] : r \in {x \in st.Hh : x[2] \in orphans}}
    IN [EmptyRows EXCEPT
         !.Hh = {r \in st.Hh : r[2] \in orphans},
         !.M = {r \in st.M : r[1] \in orphans},
         !.X = {r \in st.X : r[1] \in orphans},
         !.hist = {r \in st.hist : r[3] \in txids /\ r[2] \in hts},
         !.h = {r \in st.h : r[3] \in txids /\ r[2] \in hts},
         !.S = {r \in st.S : r[1] \in txids},
         !.T = {r \in st.T : r[1] \in txids},
         !.C = {r \in st.C : r[1] \in txids}]

\* The rollback batch: the txids of the orphaned blocks are enumerated from
\* their X rows; every row derived from those txids at those heights goes,
\* and so do the H[height] mappings.
RollbackRows(st, orphans) ==
    LET txids == UNION {Range(x[2]) : x \in {y \in st.X : y[1] \in orphans}}
        hts == {r[1] : r \in {x \in st.Hh : x[2] \in orphans}}
    IN [EmptyRows EXCEPT
         !.Hh = {r \in st.Hh : r[2] \in orphans},
         !.M = {r \in st.M : r[1] \in orphans},
         !.X = {r \in st.X : r[1] \in orphans},
         !.hist = {r \in st.hist : r[3] \in txids /\ r[2] \in hts},
         !.h = {r \in st.h : r[3] \in txids /\ r[2] \in hts},
         !.S = {r \in st.S : r[3] \in txids},
         !.T = {r \in st.T : r[1] \in txids},
         !.C = {r \in st.C : r[1] \in txids}]

(***************************************************************************)
(* The node: best chain and mempool.                                       *)
(***************************************************************************)
\* sendrawtransaction / network relay accept t on top of chain tip + pool.
NodeAccepts(t, tip, pool) ==
    LET known == ChainTxs(tip) \cup pool
    IN /\ t \notin known
       /\ \A i \in DOMAIN TxInputs(t) :
            /\ ~is_coinbase_input(TxInputs(t)[i])
            /\ TxInputs(t)[i][1] \in known
            /\ TxInputs(t)[i] \notin SpentBy(known)

RECURSIVE StillValid(_, _)
\* The transactions of pool that remain valid on top of the chain to tip.
StillValid(tip, pool) ==
    LET bad == {t \in pool :
                   \/ t \in ChainTxs(tip)
                   \/ \E i \in DOMAIN TxInputs(t) :
                        \/ TxInputs(t)[i][1] \notin ChainTxs(tip) \cup pool
                        \/ TxInputs(t)[i] \in SpentBy(ChainTxs(tip) \cup (pool \ {t}))}
    IN IF bad = {} THEN pool ELSE StillValid(tip, pool \ bad)

\* The node moves its best chain to a block with more work (a new block on
\* the tip, or a reorganization).
NodeNewTip(b) ==
    /\ BlockWork(b) > BlockWork(nodeTip)
    /\ nodeTip' = b
    /\ nodePool' = StillValid(b, nodePool)
    /\ UNCHANGED <<indexVars, poolVars, q>>

\* A transaction reaches the node's mempool from the network.
NodeReceive(t) ==
    /\ NodeAccepts(t, nodeTip, nodePool)
    /\ nodePool' = nodePool \cup {t}
    /\ UNCHANGED <<nodeTip, indexVars, poolVars, q>>

\* The node evicts a transaction (and what depends on it).
NodeEvict(t) ==
    /\ t \in nodePool
    /\ nodePool' = StillValid(nodeTip, nodePool \ {t})
    /\ UNCHANGED <<nodeTip, indexVars, poolVars, q>>

(***************************************************************************)
(* The Indexer tick.                                                       *)
(***************************************************************************)
\* Step 1: read the node's best hash.
TickStart ==
    /\ ipc = "idle"
    /\ ipc' = "scanning"
    /\ target' = nodeTip
    /\ tickCommits' = 0
    /\ UNCHANGED <<store, todo, ready, fails, nodeVars, poolVars, q>>

\* Step 2: find the common ancestor; a local tip that is not the common
\* ancestor needs a rollback first.
TickScan ==
    /\ ipc = "scanning"
    /\ todo' = NewBlocks(store, target)
    /\ ipc' = IF CommonAncestor(store, target) = best_hash(store)
              THEN "applying" ELSE "rollback"
    /\ UNCHANGED <<store, ready, fails, target, tickCommits, nodeVars,
                   poolVars, q>>

\* Step 3: the rollback batch, applied atomically.
TickRollback ==
    /\ ipc = "rollback"
    /\ store' = RowsMinus(store, RollbackRows(store, Orphans(store, target)))
    /\ ipc' = "applying"
    /\ UNCHANGED <<todo, ready, fails, target, tickCommits, nodeVars,
                   poolVars, q>>

Min(a, b) == IF a <= b THEN a ELSE b

\* The blocks the workers may hold rows for: the next ReorderCap heights.
Window == {todo[i] : i \in 1..Min(ReorderCap, Len(todo))}

\* Step 4a: a worker generates the rows of a block of the window, in any
\* order within it.
TickGenerate(b) ==
    /\ ipc = "applying"
    /\ b \in Window \ ready
    /\ ready' = ready \cup {b}
    /\ UNCHANGED <<store, ipc, todo, fails, target, tickCommits, nodeVars,
                   poolVars, q>>

\* NextToCommit that takes whichever block has its rows ready.
AnyReadyBlock ==
    IF ready # {} THEN CHOOSE b \in ready : TRUE ELSE Head(todo)

\* The block whose batch is committed next: the lowest one still to apply.
NextToCommit == Head(todo)

\* Step 4b: the batch of the next block is committed, whole.
TickCommit ==
    /\ ipc = "applying"
    /\ todo # << >>
    /\ NextToCommit \in ready
    /\ store' = RowsUnion(store, BlockRows(NextToCommit))
    /\ todo' = SelectSeq(todo, LAMBDA b : b # NextToCommit)
    /\ ready' = ready \ {NextToCommit}
    /\ tickCommits' = tickCommits + 1
    /\ UNCHANGED <<ipc, fails, target, nodeVars, poolVars, q>>

\* The tick is over; its locals are gone.
TickDone ==
    /\ ipc = "applying"
    /\ todo = << >>
    /\ ipc' = "idle"
    /\ target' = "G"
    /\ tickCommits' = 0
    /\ UNCHANGED <<store, todo, ready, fails, nodeVars, poolVars, q>>

\* TickFail that flushes the rows generated so far for the in-flight block:
\* its txo cache and confirm rows, without the rest of its batch.
TickFailFlushes ==
    /\ ipc # "idle"
    /\ fails < MaxFails
    /\ fails' = fails + 1
    /\ ipc' = "idle"
    /\ store' = IF todo # << >> /\ Head(todo) \in ready
                THEN [store EXCEPT !.T = @ \cup BlockRows(Head(todo)).T,
                                   !.C = @ \cup BlockRows(Head(todo)).C]
                ELSE store
    /\ todo' = << >>
    /\ ready' = {}
    /\ target' = "G"
    /\ tickCommits' = 0
    /\ UNCHANGED <<nodeVars, poolVars, q>>

\* Any step fails: the tick is aborted, generated rows that were not
\* committed are dropped, the next tick starts over.
TickFail ==
    /\ ipc # "idle"
    /\ fails < MaxFails
    /\ fails' = fails + 1
    /\ ipc' = "idle"
    /\ todo' = << >>
    /\ ready' = {}
    /\ target' = "G"
    /\ tickCommits' = 0
    /\ UNCHANGED <<store, nodeVars, poolVars, q>>

\* The steps of a tick that runs through.
IndexerSteps ==
    \/ TickStart \/ TickScan \/ TickRollback
    \/ \E b \in Hashes : TickGenerate(b)
    \/ TickCommit \/ TickDone

Indexer == IndexerSteps \/ TickFail

Node ==
    \/ \E b \in Hashes : NodeNewTip(b)
    \/ \E t \in Txids : NodeReceive(t) \/ NodeEvict(t)

InitNode ==
    /\ nodeTip = "G"
    /\ nodePool = {}

\* The index of a fresh store holds the genesis block.
InitIndex ==
    /\ store = BlockRows("G")
    /\ ipc = "idle"
    /\ todo = << >>
    /\ ready = {}
    /\ fails = 0
    /\ target = "G"
    /\ tickCommits = 0

(***************************************************************************)
(* ChainQuery: the read-only view over the committed index.                *)
(***************************************************************************)
Tx(t) == [txid |-> t, input |-> TxInputs(t), output |-> TxOutputs(t)]
RawTx(t) == <<"raw", t>>

KindOrd(k) == IF k = "funding" THEN 0 ELSE 1

\* Lexicographic position of a history key below its scripthash:
\* (conf_height, txid, kind, index).
HistKey(r) == ((r[2] * 10 + TxOrd(r[3])) * 2 + KindOrd(r[4])) * 4 + r[5]

RECURSIVE SortRows(_)
\* A prefix scan: the rows in ascending key order.
SortRows(rs) ==
    IF rs = {} THEN << >>
    ELSE LET r == CHOOSE x \in rs : \A y \in rs : HistKey(x) <= HistKey(y)
         IN <<r>> \o SortRows(rs \ {r})

RECURSIVE Unique(_)
\* Drops every element that occurred earlier in the sequence.
Unique(s) ==
    IF s = << >> THEN << >>
    ELSE LET front == Unique(SubSeq(s, 1, Len(s) - 1))
             last == s[Len(s)]
         IN IF last \in Range(front) THEN front ELSE Append(front, last)

\* tx_confirming_block that trusts the C row.
tx_confirming_block_unchecked(st, txid) ==
    LET cs == {c \in st.C : c[1] = txid}
    IN IF cs = {} THEN None
       ELSE LET c == CHOOSE x \in cs : TRUE IN Some(<<c[3], c[2]>>)

\* C[txid], cross-checked against H[height]; a BlockId is <<height, hash>>.
tx_confirming_block(st, txid) ==
    LET cs == {c \in st.C : c[1] = txid /\ <<c[3], c[2]>> \in st.Hh}
    IN IF cs = {} THEN None
       ELSE LET c == CHOOSE x \in cs : TRUE IN Some(<<c[3], c[2]>>)

history_scan(st, script) == SortRows({r \in st.hist : r[1] = script})

\* chain_utxo that returns every funding event, spent or not.
chain_utxo_all_funded(st, script) ==
    LET funding == SelectSeq(history_scan(st, script),
                             LAMBDA r : r[4] = "funding")
        value(r) == (CHOOSE x \in st.h : x[1] = script /\ x[3] = r[3] /\ x[4] = r[5])[5]
    IN [i \in DOMAIN funding |->
          LET r == funding[i]
          IN [txid |-> r[3], vout |-> r[5], value |-> value(r),
              confirmed |-> tx_confirming_block(st, r[3])]]

chain_utxo(st, script) ==
    LET funding == SelectSeq(history_scan(st, script),
                             LAMBDA r : r[4] = "funding")
        unspent == SelectSeq(funding,
                             LAMBDA r : ~\E e \in st.S : e[1] = r[3] /\ e[2] = r[5])
        value(r) == (CHOOSE x \in st.h : x[1] = script /\ x[3] = r[3] /\ x[4] = r[5])[5]
    IN [i \in DOMAIN unspent |->
          LET r == unspent[i]
          IN [txid |-> r[3], vout |-> r[5], value |-> value(r),
              confirmed |-> tx_confirming_block(st, r[3])]]

chain_history_txids(st, script) ==
    LET scan == history_scan(st, script)
        txids == Unique([i \in DOMAIN scan |-> scan[i][3]])
        conf == SelectSeq(txids, LAMBDA t : tx_confirming_block(st, t) # None)
    IN [i \in DOMAIN conf |-> <<conf[i], tx_confirming_block(st, conf[i])[1]>>]

chain_lookup_txn(st, txid) ==
    IF \E c \in st.C : c[1] = txid THEN Some(Tx(txid)) ELSE None

chain_lookup_raw_txn(st, txid) ==
    IF \E c \in st.C : c[1] = txid THEN Some(RawTx(txid)) ELSE None

chain_lookup_spend(st, op) ==
    LET es == {e \in st.S : e[1] = op[1] /\ e[2] = op[2]}
    IN IF es = {} THEN None
       ELSE LET e == CHOOSE x \in es : TRUE
            IN Some([txid |-> e[3], vin |-> e[4],
                     confirmed |-> tx_confirming_block(st, e[3])])

(***************************************************************************)
(* Mempool mirror.                                                         *)
(*   txstore  set of txids (the transaction of a txid is Tx(txid))         *)
(*   history  script -> sequence of <<txid, kind, index, value>>           *)
(*   edges    set of <<prev_txid, prev_vout, txid, vin>>                   *)
(*   feeinfo  set of <<txid, fee>>                                         *)
(***************************************************************************)
EmptyMempool ==
    [txstore |-> {}, history |-> [s \in Scripts |-> << >>], edges |-> {},
     feeinfo |-> {}]

\* A previous output resolves from the mempool txstore, else from the chain.
Resolves(m, st, op) ==
    \/ op[1] \in m.txstore
    \/ \E r \in st.T : r[1] = op[1] /\ r[2] = op[2]

Sum(s) == LET F[i \in 0..Len(s)] == IF i = 0 THEN 0 ELSE F[i - 1] + s[i]
          IN F[Len(s)]

\* The history entries of t for script, inputs first, then outputs.
TxEntries(m, st, t, script) ==
    LET ins == SelectSeq([i \in DOMAIN TxInputs(t) |-> i],
                  LAMBDA i : /\ ~is_coinbase_input(TxInputs(t)[i])
                             /\ Resolves(m, st, TxInputs(t)[i])
                             /\ PrevScript(TxInputs(t)[i]) = script)
        outs == SelectSeq([o \in DOMAIN TxOutputs(t) |-> o],
                  LAMBDA o : TxOutputs(t)[o][1] = script)
    IN [k \in DOMAIN ins |->
          <<t, "spending", ins[k] - 1, PrevValue(TxInputs(t)[ins[k]])>>]
       \o [k \in DOMAIN outs |->
             <<t, "funding", outs[k] - 1, TxOutputs(t)[outs[k]][2]>>]

\* Mempool::add for one transaction.
mempool_add(m, st, t) ==
    LET ins == {i \in DOMAIN TxInputs(t) : ~is_coinbase_input(TxInputs(t)[i])}
        allResolve == \A i \in ins : Resolves(m, st, TxInputs(t)[i])
        fee == Sum([i \in DOMAIN TxInputs(t) |-> PrevValue(TxInputs(t)[i])])
               - Sum([o \in DOMAIN TxOutputs(t) |-> TxOutputs(t)[o][2]])
    IN [txstore |-> m.txstore \cup {t},
        history |-> [s \in Scripts |-> m.history[s] \o TxEntries(m, st, t, s)],
        edges |-> m.edges
                  \cup {<<TxInputs(t)[i][1], TxInputs(t)[i][2], t, i - 1>> : i \in ins},
        feeinfo |-> IF allResolve THEN m.feeinfo \cup {<<t, fee>>} ELSE m.feeinfo]

\* mempool_remove that leaves the edges of t in place.
mempool_remove_keeps_edges(m, t) ==
    [txstore |-> m.txstore \ {t},
     history |-> [s \in Scripts |-> SelectSeq(m.history[s], LAMBDA e : e[1] # t)],
     edges |-> m.edges,
     feeinfo |-> {f \in m.feeinfo : f[1] # t}]

\* Unlinks everything recorded for t.
mempool_remove(m, t) ==
    [txstore |-> m.txstore \ {t},
     history |-> [s \in Scripts |-> SelectSeq(m.history[s], LAMBDA e : e[1] # t)],
     edges |-> {e \in m.edges : e[3] # t},
     feeinfo |-> {f \in m.feeinfo : f[1] # t}]

RECURSIVE AddAll(_, _, _)
AddAll(m, st, ts) ==
    IF ts = << >> THEN m ELSE AddAll(mempool_add(m, st, Head(ts)), st, Tail(ts))

RECURSIVE RemoveAll(_, _)
RemoveAll(m, ts) ==
    IF ts = {} THEN m
    ELSE LET t == CHOOSE x \in ts : TRUE
         IN RemoveAll(mempool_remove(m, t), ts \ {t})

\* Mempool::add_by_txid: a txid the mirror already holds is left alone.
add_by_txid(m, st, t) ==
    IF t \in m.txstore THEN m ELSE mempool_add(m, st, t)

has_spend(m, op) == \E e \in m.edges : e[1] = op[1] /\ e[2] = op[2]

mempool_lookup_txn(m, txid) ==
    IF txid \in m.txstore THEN Some(Tx(txid)) ELSE None

mempool_lookup_raw_txn(m, txid) ==
    IF txid \in m.txstore THEN Some(RawTx(txid)) ELSE None

mempool_lookup_spend(m, op) ==
    LET es == {e \in m.edges : e[1] = op[1] /\ e[2] = op[2]}
    IN IF es = {} THEN None
       ELSE LET e == CHOOSE x \in es : TRUE
            IN Some([txid |-> e[3], vin |-> e[4], confirmed |-> None])

\* Mempool::lookup_txos: each outpoint from the txstore, else from the
\* chain's txo cache; an outpoint found in neither fails the lookup.
mempool_lookup_txos(m, st, outpoints) ==
    IF \A op \in outpoints : Resolves(m, st, op)
    THEN <<"Ok", [op \in outpoints |-> TxOutputs(op[1])[op[2] + 1]]>>
    ELSE <<"Err", "missing outpoint">>

mempool_history_txids(m, script) ==
    Unique([i \in DOMAIN m.history[script] |-> m.history[script][i][1]])

mempool_utxo(m, script) ==
    LET unspent == SelectSeq(m.history[script],
                      LAMBDA e : e[2] = "funding" /\ ~has_spend(m, <<e[1], e[3]>>))
    IN [i \in DOMAIN unspent |->
          [txid |-> unspent[i][1], vout |-> unspent[i][3],
           value |-> unspent[i][4], confirmed |-> None]]

\* The poll update in progress.  pc "locked": it holds the write lock;
\* removed: the txids the last poll found gone from the node's set;
\* ops: the unlinks and adds still to do; field: the next map to touch.
UpdIdle == [pc |-> "idle", removed |-> {}, ops |-> << >>, field |-> 1]

WriteLocked == upd.pc = "locked"

\* The sequences that list every element of S once.
Perms(S) ==
    {p \in UNION {[1..Cardinality(S) -> S]} : \A x \in S : \E i \in DOMAIN p : p[i] = x}

\* One poll, under the write lock: the node's txid set is fetched, txids
\* that left it are unlinked, new ones are added.
MempoolUpdate ==
    /\ readers = 0
    /\ ~WriteLocked
    /\ \E order \in Perms(nodePool \ mp.txstore) :
          mp' = AddAll(RemoveAll(mp, mp.txstore \ nodePool), store, order)
    /\ polled' = TRUE
    /\ UNCHANGED <<readers, nodeVars, indexVars, q>>

InitPool ==
    /\ mp = EmptyMempool
    /\ readers = 0
    /\ polled = FALSE

(***************************************************************************)
(* Query: the composition layer, one request handler.  q holds            *)
(*   op, pc   the operation running and its position                       *)
(*   arg      its argument                                                 *)
(*   loc      its local value (utxos, confirmed_txids, txid)               *)
(*   seen     what the first read of the call returned                     *)
(*   res      the value returned                                           *)
(*   calls    calls made to the node's broadcaster                         *)
(*   wlocked  the call took the mempool write lock                         *)
(***************************************************************************)
Idle ==
    [op |-> "none", pc |-> "idle", arg |-> << >>, loc |-> << >>,
     seen |-> << >>, res |-> << >>, calls |-> 0, wlocked |-> FALSE]

OutPointOf(u) == <<u.txid, u.vout>>

\* Query::utxo, `let mut utxos = self.chain.utxo(scripthash)`.
UtxoChain(script) ==
    /\ q.pc = "idle"
    /\ q' = [Idle EXCEPT !.op = "utxo", !.pc = "lock", !.arg = script,
                         !.loc = chain_utxo(store, script),
                         !.seen = chain_utxo(store, script)]
    /\ UNCHANGED <<nodeVars, indexVars, poolVars>>

\* UtxoLock that does not wait for the writer.
UtxoLockNoWait ==
    /\ q.op = "utxo" /\ q.pc = "lock"
    /\ readers' = readers + 1
    /\ q' = [q EXCEPT !.pc = "retain"]
    /\ UNCHANGED <<mp, polled, nodeVars, indexVars>>

\* `let mempool = self.mempool()`: the read lock, held until the return.
UtxoLock ==
    /\ q.op = "utxo" /\ q.pc = "lock"
    /\ ~WriteLocked
    /\ readers' = readers + 1
    /\ q' = [q EXCEPT !.pc = "retain"]
    /\ UNCHANGED <<mp, polled, nodeVars, indexVars>>

\* UtxoRetain without the has_spend filter.
UtxoRetainAll ==
    /\ q.op = "utxo" /\ q.pc = "retain"
    /\ q' = [q EXCEPT !.pc = "extend"]
    /\ UNCHANGED <<nodeVars, indexVars, poolVars>>

\* `utxos.retain(|utxo| !mempool.has_spend(&OutPoint::from(utxo)))`.
UtxoRetain ==
    /\ q.op = "utxo" /\ q.pc = "retain"
    /\ q' = [q EXCEPT !.pc = "extend",
                      !.loc = SelectSeq(q.loc,
                                 LAMBDA u : ~has_spend(mp, OutPointOf(u)))]
    /\ UNCHANGED <<nodeVars, indexVars, poolVars>>

\* `utxos.extend(mempool.utxo(scripthash))`.
UtxoExtend ==
    /\ q.op = "utxo" /\ q.pc = "extend"
    /\ q' = [q EXCEPT !.pc = "return",
                      !.loc = q.loc \o mempool_utxo(mp, q.arg)]
    /\ UNCHANGED <<nodeVars, indexVars, poolVars>>

\* `utxos`: the value is returned and the read guard dropped.
UtxoReturn ==
    /\ q.op = "utxo" /\ q.pc = "return"
    /\ readers' = readers - 1
    /\ q' = [q EXCEPT !.pc = "done", !.res = q.loc]
    /\ UNCHANGED <<mp, polled, nodeVars, indexVars>>

\* Query::history_txids, confirmed_txids.
HistoryChain(script) ==
    /\ q.pc = "idle"
    /\ q' = [Idle EXCEPT !.op = "history_txids", !.pc = "mempool",
                         !.arg = script,
                         !.loc = LET c == chain_history_txids(store, script)
                                 IN [i \in DOMAIN c |-> <<c[i][1], Some(c[i][2])>>],
                         !.seen = {c[1] : c \in store.C}]
    /\ UNCHANGED <<nodeVars, indexVars, poolVars>>

\* mempool_txids, read under the read lock, chained after the confirmed.
HistoryMempool ==
    /\ q.op = "history_txids" /\ q.pc = "mempool"
    /\ ~WriteLocked
    /\ q' = [q EXCEPT !.pc = "done",
                      !.res = LET m == mempool_history_txids(mp, q.arg)
                              IN q.loc \o [i \in DOMAIN m |-> <<m[i], None>>]]
    /\ UNCHANGED <<nodeVars, indexVars, poolVars>>

Lookups == {"lookup_txn", "lookup_raw_txn", "lookup_spend"}

ChainLookup(op, st, a) ==
    CASE op = "lookup_txn" -> chain_lookup_txn(st, a)
      [] op = "lookup_raw_txn" -> chain_lookup_raw_txn(st, a)
      [] op = "lookup_spend" -> chain_lookup_spend(st, a)

MempoolLookup(op, m, a) ==
    CASE op = "lookup_txn" -> mempool_lookup_txn(m, a)
      [] op = "lookup_raw_txn" -> mempool_lookup_raw_txn(m, a)
      [] op = "lookup_spend" -> mempool_lookup_spend(m, a)

LookupArgs(op) ==
    IF op = "lookup_spend" THEN {<<"cb1", 0>>, <<"cb1", 1>>, <<"t2", 1>>}
    ELSE Txids

\* LookupChain with the mempool asked first.
LookupMempoolFirst(op, a) ==
    /\ q.pc = "idle"
    /\ LET c == ChainLookup(op, store, a)
           m == MempoolLookup(op, mp, a)
       IN q' = [Idle EXCEPT !.op = op, !.arg = a, !.seen = c, !.pc = "done",
                            !.res = IF m # None THEN m ELSE c]
    /\ UNCHANGED <<nodeVars, indexVars, poolVars>>

\* Query::lookup_txn / lookup_raw_txn / lookup_spend: `self.chain.lookup(..)`;
\* or_else runs its closure only on None.
LookupChain(op, a) ==
    /\ q.pc = "idle"
    /\ LET c == ChainLookup(op, store, a)
       IN q' = [Idle EXCEPT !.op = op, !.arg = a, !.seen = c, !.res = c,
                            !.pc = IF c # None THEN "done" ELSE "mempool"]
    /\ UNCHANGED <<nodeVars, indexVars, poolVars>>

\* `.or_else(|| self.mempool().lookup(..))`.
LookupMempool ==
    /\ q.op \in Lookups /\ q.pc = "mempool"
    /\ ~WriteLocked
    /\ q' = [q EXCEPT !.pc = "done", !.res = MempoolLookup(q.op, mp, q.arg)]
    /\ UNCHANGED <<nodeVars, indexVars, poolVars>>

NodeErrors == {"rejected", "unavailable"}

\* BroadcastSend that sends a rejected transaction a second time.
BroadcastSendRetry(t) ==
    /\ q.pc = "idle"
    /\ ~NodeAccepts(t, nodeTip, nodePool)
    /\ q' = [Idle EXCEPT !.op = "broadcast_raw", !.pc = "done", !.arg = t,
                         !.seen = <<"Err", "rejected">>,
                         !.res = <<"Err", "rejected">>, !.calls = 2]
    /\ UNCHANGED <<nodeVars, indexVars, poolVars>>

\* Query::broadcast_raw, `self.daemon.broadcast_raw(&txhex)?`: the node
\* takes the transaction into its mempool, or answers with an error, which
\* `?` returns.
BroadcastSend(t) ==
    /\ q.pc = "idle"
    /\ \/ /\ NodeAccepts(t, nodeTip, nodePool)
          /\ nodePool' = nodePool \cup {t}
          /\ q' = [Idle EXCEPT !.op = "broadcast_raw", !.pc = "add", !.arg = t,
                               !.loc = <<t>>, !.seen = <<"Ok", t>>, !.calls = 1]
       \/ /\ \E e \in NodeErrors :
                /\ e = "rejected" => ~NodeAccepts(t, nodeTip, nodePool)
                /\ q' = [Idle EXCEPT !.op = "broadcast_raw", !.pc = "done",
                                     !.arg = t, !.seen = <<"Err", e>>,
                                     !.res = <<"Err", e>>, !.calls = 1]
          /\ UNCHANGED nodePool
    /\ UNCHANGED <<nodeTip, indexVars, poolVars>>

\* BroadcastAdd that leaves the mirror to the next poll.
BroadcastNoAdd ==
    /\ q.op = "broadcast_raw" /\ q.pc = "add"
    /\ polled' = FALSE
    /\ q' = [q EXCEPT !.pc = "done", !.res = <<"Ok", q.loc[1]>>]
    /\ UNCHANGED <<mp, readers, nodeVars, indexVars>>

\* `self.mempool.write().unwrap().add_by_txid(&self.daemon, &txid); Ok(txid)`.
BroadcastAdd ==
    /\ q.op = "broadcast_raw" /\ q.pc = "add"
    /\ readers = 0
    /\ ~WriteLocked
    /\ mp' = add_by_txid(mp, store, q.loc[1])
    /\ polled' = FALSE
    /\ q' = [q EXCEPT !.pc = "done", !.res = <<"Ok", q.loc[1]>>,
                      !.wlocked = TRUE]
    /\ UNCHANGED <<readers, nodeVars, indexVars>>

\* The sets of outpoints asked for.
TxosArgs == {{<<"cb1", 0>>}, {<<"t2", 1>>}, {<<"cb1", 0>>, <<"t2", 1>>}}

\* Query::lookup_txos: `self.mempool().lookup_txos(outpoints)`, and
\* `.expect("failed loading txos")`, which panics on Err.
LookupTxos(outpoints) ==
    /\ q.pc = "idle"
    /\ ~WriteLocked
    /\ LET r == mempool_lookup_txos(mp, store, outpoints)
       IN q' = [Idle EXCEPT !.op = "lookup_txos", !.arg = outpoints,
                            !.seen = r, !.calls = 1,
                            !.pc = IF r[1] = "Ok" THEN "done" ELSE "panicked",
                            !.res = IF r[1] = "Ok" THEN r[2] ELSE << >>]
    /\ UNCHANGED <<nodeVars, indexVars, poolVars>>

\* The handler's thread unwinds; the next request gets a new handler.
Unwind ==
    /\ q.pc = "panicked"
    /\ q' = Idle
    /\ UNCHANGED <<nodeVars, indexVars, poolVars>>

\* The handler is done with the result.
Finish ==
    /\ q.pc = "done"
    /\ q' = Idle
    /\ UNCHANGED <<nodeVars, indexVars, poolVars>>

Query ==
    \/ \E s \in Scripts : UtxoChain(s) \/ HistoryChain(s)
    \/ UtxoLock \/ UtxoRetain \/ UtxoExtend \/ UtxoReturn
    \/ HistoryMempool
    \/ \E op \in Lookups : \E a \in LookupArgs(op) : LookupChain(op, a)
    \/ LookupMempool
    \/ \E t \in Txids : BroadcastSend(t)
    \/ BroadcastAdd
    \/ Finish


(***************************************************************************)
(* Store (src/src/store.rs): a RocksDB behind persist, get and scan.       *)
(* A key is a byte string; a stored value is the number of the persist     *)
(* call that wrote it, 0 for a key that is absent.                         *)
(***************************************************************************)
Keys == {<<1>>, <<1, 1>>, <<2>>}
Prefixes == {<<1>>, <<1, 1>>, <<2>>}
Absent == 0

\* `let key = b"F";`: the row compact_if_needed marks a compacted store
\* with, one byte long, and its value `b""`.
MarkerKey == <<70>>
EmptyValue == 1
AllKeys == Keys \cup {MarkerKey}

EmptyDb == [k \in AllKeys |-> Absent]

\* Byte-wise lexicographic order, the order of the engine's iterator.
KeyLess(a, b) ==
    \/ \E i \in 1..Min(Len(a), Len(b)) :
          /\ a[i] < b[i]
          /\ \A j \in 1..(i - 1) : a[j] = b[j]
    \/ /\ Len(a) < Len(b)
       /\ \A j \in 1..Len(a) : a[j] = b[j]

RECURSIVE SortKeys(_)
SortKeys(ks) ==
    IF ks = {} THEN << >>
    ELSE LET k == CHOOSE x \in ks : \A y \in ks \ {x} : KeyLess(x, y)
         IN <<k>> \o SortKeys(ks \ {k})

\* The keys an iterator over d walks, in order.
IterKeys(d) == SortKeys({k \in AllKeys : d[k] # Absent})

\* `opts.set_sync(true)`.
WriteOptions == [sync |-> TRUE]

\* A write that stops after the first put of the batch.
write_first_put(d, batch) ==
    IF batch = << >> THEN d ELSE [d EXCEPT ![batch[1][1]] = batch[1][2]]

RECURSIVE write_batch(_, _)
\* The engine applies a WriteBatch: every put, in order, as one write.
write_batch(d, batch) ==
    IF batch = << >> THEN d
    ELSE write_batch([d EXCEPT ![Head(batch)[1]] = Head(batch)[2]], Tail(batch))

\* The batches a caller may hand to persist: up to MaxBatch rows.
Batches(n) ==
    UNION {[1..len -> {<<k, n>> : k \in Keys}] : len \in 1..MaxBatch}

\* Store::persist, the loop of `batch.put`: the WriteBatch is built.
PersistCall(rows) ==
    /\ wr.pc = "idle"
    /\ persists < MaxPersists
    /\ persists' = persists + 1
    /\ wr' = [pc |-> "write", batch |-> rows]
    /\ UNCHANGED <<db, disk, rd, snaps>>

\* The content a store d has once the rows of batch are all in.
WithBatch(d, batch) ==
    [k \in AllKeys |->
        IF \E i \in DOMAIN batch : batch[i][1] = k
        THEN batch[Max({i \in DOMAIN batch : batch[i][1] = k})][2]
        ELSE d[k]]

\* `self.db.write_opt(batch, &opts)`, first half: the batch goes to the
\* write-ahead log, which a synced write flushes to disk before going on.
PersistLog ==
    /\ wr.pc = "write"
    /\ disk' = IF WriteOptions.sync THEN write_batch(disk, wr.batch) ELSE disk
    /\ snaps' = snaps \cup {WithBatch(db, wr.batch)}
    /\ wr' = [wr EXCEPT !.pc = "publish"]
    /\ UNCHANGED <<db, rd, persists>>

\* Second half: the batch becomes visible to readers, and persist returns.
PersistPublish ==
    /\ wr.pc = "publish"
    /\ db' = write_batch(db, wr.batch)
    /\ wr' = [wr EXCEPT !.pc = "returned"]
    /\ UNCHANGED <<disk, rd, snaps, persists>>

PersistReturn ==
    /\ wr.pc = "returned"
    /\ wr' = [pc |-> "idle", batch |-> << >>]
    /\ UNCHANGED <<db, disk, rd, snaps, persists>>

RdIdle ==
    [op |-> "none", pc |-> "idle", key |-> << >>, snap |-> EmptyDb, pos |-> 0,
     rows |-> << >>]

\* Store::get.
Get(k) ==
    /\ rd.pc = "idle"
    /\ rd' = [RdIdle EXCEPT !.op = "get", !.pc = "done", !.key = k,
                            !.rows = IF db[k] = Absent THEN << >>
                                     ELSE << <<k, db[k]>> >>]
    /\ UNCHANGED <<db, disk, wr, snaps, persists>>

\* Store::scan, `raw_iterator()` and `iter.seek(prefix)`: the iterator reads
\* the store as it is now and stands on the first key >= prefix.
ScanSeek(prefix) ==
    /\ rd.pc = "idle"
    /\ rd' = [RdIdle EXCEPT
                !.op = "scan", !.pc = "loop", !.key = prefix, !.snap = db,
                !.pos = 1 + Cardinality({i \in DOMAIN IterKeys(db) :
                                            KeyLess(IterKeys(db)[i], prefix)})]
    /\ UNCHANGED <<db, disk, wr, snaps, persists>>

\* One turn of `while iter.valid()`.  `&key[..prefix_len]` panics on a key
\* shorter than the prefix.
ScanStep ==
    /\ rd.op = "scan" /\ rd.pc = "loop"
    /\ LET keys == IterKeys(rd.snap)
           n == Len(rd.key)
       IN IF rd.pos > Len(keys) THEN rd' = [rd EXCEPT !.pc = "done"]
          ELSE LET key == keys[rd.pos]
               IN IF Len(key) < n THEN rd' = [rd EXCEPT !.pc = "panicked"]
                  ELSE IF SubSeq(key, 1, n) # rd.key
                       THEN rd' = [rd EXCEPT !.pc = "done"]
                       ELSE rd' = [rd EXCEPT
                                     !.rows = Append(@, <<key, rd.snap[key]>>),
                                     !.pos = @ + 1]
    /\ UNCHANGED <<db, disk, wr, snaps, persists>>

ReadDone ==
    /\ rd.pc \in {"done", "panicked"}
    /\ rd' = RdIdle
    /\ UNCHANGED <<db, disk, wr, snaps, persists>>

\* The process dies and is started again: what was not on disk is gone.
Crash ==
    /\ db' = disk
    /\ wr' = [pc |-> "idle", batch |-> << >>]
    /\ rd' = RdIdle
    /\ UNCHANGED <<disk, snaps, persists>>

InitStore ==
    /\ db = EmptyDb
    /\ disk = EmptyDb
    /\ wr = [pc |-> "idle", batch |-> << >>]
    /\ rd = RdIdle
    /\ snaps = {EmptyDb}
    /\ persists = 0

StoreOps ==
    \/ \E rows \in Batches(persists + 1) : PersistCall(rows)
    \/ PersistLog \/ PersistPublish \/ PersistReturn
    \/ \E k \in Keys : Get(k)
    \/ \E p \in Prefixes : ScanSeek(p)
    \/ ScanStep \/ ReadDone
    \/ Crash

Init ==
    InitNode /\ InitIndex /\ InitPool /\ q = Idle /\ InitStore /\ upd = UpdIdle /\ spentAll = {}

\* Readers against the node, the Indexer and the mempool poll.  A failed
\* tick changes no row, so the readers' specification leaves TickFail to
\* SpecIndexer.
Next ==
    /\ Node \/ IndexerSteps \/ MempoolUpdate \/ Query
    /\ UNCHANGED <<kvVars, upd, spentAll>>

Spec == Init /\ [][Next]_vars

\* The Indexer alone against the node, with failing ticks.  The Indexer
\* runs on a dedicated thread of its own: it always gets to take its next
\* step.
NextIndexer ==
    /\ Node \/ Indexer
    /\ UNCHANGED <<kvVars, upd, spentAll>>

SpecIndexer ==
    /\ Init /\ [][NextIndexer]_vars
    /\ WF_vars(IndexerSteps /\ UNCHANGED <<kvVars, upd, spentAll>>)

\* The Store alone: one writer, one reader, crashes.
NextStore ==
    /\ StoreOps
    /\ UNCHANGED <<engineVars, upd, spentAll>>

SpecStore == Init /\ [][NextStore]_vars

(***************************************************************************)
(* Store::compact_if_needed, called by the writer's thread once the        *)
(* initial sync is over, on a store that already holds its rows.           *)
(***************************************************************************)
\* `if self.get(key).is_some() { return; }`, ignoring what get found.
CompactAlways ==
    /\ wr.pc = "idle"
    /\ wr' = [pc |-> "compact", batch |-> << >>]
    /\ UNCHANGED <<db, disk, rd, snaps, persists>>

\* `if self.get(key).is_some() { return; }`.
CompactCheck ==
    /\ wr.pc = "idle"
    /\ wr' = [pc |-> IF db[MarkerKey] # Absent THEN "skipped" ELSE "compact",
              batch |-> << >>]
    /\ UNCHANGED <<db, disk, rd, snaps, persists>>

\* The early return.
CompactSkip ==
    /\ wr.pc = "skipped"
    /\ wr' = [pc |-> "idle", batch |-> << >>]
    /\ UNCHANGED <<db, disk, rd, snaps, persists>>

\* The engine rewrites its files over the whole key range; the rows a
\* reader finds are the same before and after.
compact_range(d) == [k \in AllKeys |-> d[k]]

\* `self.db.compact_range(None, None)`.
CompactRange ==
    /\ wr.pc = "compact"
    /\ db' = compact_range(db)
    /\ disk' = compact_range(disk)
    /\ wr' = [wr EXCEPT !.pc = "mark"]
    /\ UNCHANGED <<rd, snaps, persists>>

\* `self.db.put(key, b"").unwrap()`: a put with the default write options,
\* which do not sync: readers see the marker at once, the disk has it only
\* when the engine or the system writes its log back.
CompactPut ==
    /\ wr.pc = "mark"
    /\ db' = [db EXCEPT ![MarkerKey] = EmptyValue]
    /\ snaps' = snaps \cup {db'}
    /\ wr' = [pc |-> "idle", batch |-> << >>]
    /\ UNCHANGED <<disk, rd, persists>>

\* The log of the unsynced writes reaches the disk.
WriteBack ==
    /\ disk # db
    /\ disk' = db
    /\ UNCHANGED <<db, wr, rd, snaps, persists>>

\* The stores compaction may find: any rows, all on disk, no marker.
Contents == {d \in [AllKeys -> {Absent, EmptyValue}] : d[MarkerKey] = Absent}

InitCompact ==
    /\ InitNode /\ InitIndex /\ InitPool /\ q = Idle /\ upd = UpdIdle /\ spentAll = {}
    /\ db \in Contents
    /\ disk = db
    /\ wr = [pc |-> "idle", batch |-> << >>]
    /\ rd = RdIdle
    /\ snaps = {db}
    /\ persists = 0

Compaction ==
    \/ CompactCheck \/ CompactSkip \/ CompactRange \/ CompactPut
    \/ WriteBack
    \/ \E k \in Keys : Get(k)
    \/ ReadDone
    \/ Crash

NextCompact ==
    /\ Compaction
    /\ UNCHANGED <<engineVars, upd, spentAll>>

SpecCompact == InitCompact /\ [][NextCompact]_vars

(***************************************************************************)
(* The mempool poll taken apart: what the write lock protects.  The maps   *)
(* of the mirror are touched one at a time, one transaction at a time.     *)
(***************************************************************************)
\* The order in which an unlink and an add touch the maps.
OpFields(kind) ==
    IF kind = "remove" THEN <<"history", "txstore", "edges", "feeinfo">>
    ELSE <<"txstore", "history", "edges", "feeinfo">>

\* The mirror once the operation <<kind, txid>> is through.
OpTarget(m, st, op) ==
    IF op[1] = "remove" THEN mempool_remove(m, op[2])
    ELSE mempool_add(m, st, op[2])

\* Update protocol steps 1 and 2, with the write lock taken: the node's set
\* is fetched, `removed` and `added` are computed.
PollLock ==
    /\ upd.pc = "idle"
    /\ readers = 0
    /\ \E rm \in Perms(mp.txstore \ nodePool) :
       \E ad \in Perms(nodePool \ mp.txstore) :
          upd' = [pc |-> "locked",
                  removed |-> mp.txstore \ nodePool,
                  ops |-> [i \in DOMAIN rm |-> <<"remove", rm[i]>>]
                          \o [i \in DOMAIN ad |-> <<"add", ad[i]>>],
                  field |-> 1]
    /\ UNCHANGED <<nodeVars, indexVars, poolVars, q>>

\* Steps 3 and 4: one map of the mirror is updated for one transaction.
PollStep ==
    /\ upd.pc = "locked"
    /\ upd.ops # << >>
    /\ LET op == Head(upd.ops)
           fs == OpFields(op[1])
           f == fs[upd.field]
       IN /\ mp' = [mp EXCEPT ![f] = OpTarget(mp, store, op)[f]]
          /\ upd' = IF upd.field = Len(fs)
                    THEN [upd EXCEPT !.ops = Tail(@), !.field = 1]
                    ELSE [upd EXCEPT !.field = @ + 1]
    /\ UNCHANGED <<readers, polled, nodeVars, indexVars, q>>

\* The update is through and the write lock released.
PollUnlock ==
    /\ upd.pc = "locked"
    /\ upd.ops = << >>
    /\ upd' = [upd EXCEPT !.pc = "idle"]
    /\ polled' = TRUE
    /\ UNCHANGED <<mp, readers, nodeVars, indexVars, q>>

Poll == PollLock \/ PollStep \/ PollUnlock

\* The index an uninterrupted run builds for the chain to tip (header rows
\* of rolled-back blocks aside).
IndexOf(tip) ==
    LET F[bs \in SUBSET Hashes] ==
          IF bs = {} THEN EmptyRows
          ELSE LET b == CHOOSE x \in bs : TRUE
               IN RowsUnion(BlockRows(b), F[bs \ {b}])
    IN F[ChainOf(tip)]

\* The chains the mempool is checked on.
SyncedTips == {"A1", "A2"}

\* The node's mempool changes; its best chain stays.
NodePool == \E t \in Txids : NodeReceive(t) \/ NodeEvict(t)

\* The chain is indexed up to the node's tip and the Indexer is idle.
InitSynced ==
    /\ nodeTip \in SyncedTips
    /\ nodePool = {}
    /\ store = IndexOf(nodeTip)
    /\ ipc = "idle" /\ todo = << >> /\ ready = {} /\ fails = 0
    /\ target = "G" /\ tickCommits = 0
    /\ InitPool /\ q = Idle /\ InitStore /\ upd = UpdIdle /\ spentAll = {}

\* Request handlers against the node's mempool and the poll's steps, on a
\* chain that stands still.
NextMempool ==
    \/ (NodePool \/ Query) /\ UNCHANGED <<kvVars, upd, spentAll>>
    \/ ((\E outpoints \in TxosArgs : LookupTxos(outpoints)) \/ Unwind)
          /\ UNCHANGED <<kvVars, upd, spentAll>>
    \/ Poll /\ UNCHANGED <<kvVars, spentAll>>

SpecMempool == InitSynced /\ [][NextMempool]_vars

(***************************************************************************)
(* Query::lookup_tx_spends: one lookup_spend per output, on a thread pool. *)
(* q.seen holds the outputs whose task found no spend in the chain and has *)
(* yet to ask the mempool, q.loc the <<vout, result>> of the tasks that    *)
(* are over, in the order in which they finished.                          *)
(***************************************************************************)
\* A script that is provably unspendable (OP_RETURN).
Unspendable == "R"

is_spendable(txout) == txout[1] # Unspendable

\* The transactions handed to lookup_tx_spends: two of the ledger, each
\* also with one output replaced by an unspendable one.
SpendsArgs ==
    LET base == {Tx("cb1"), Tx("t2")}
    IN base \cup {[tx EXCEPT !.output[o] = <<Unspendable, 0>>] :
                     tx \in base, o \in 1..2}

\* `par_iter().enumerate()`: the calls begin, one task per output.
SpendsStart(tx) ==
    /\ q.pc = "idle"
    /\ q' = [Idle EXCEPT !.op = "lookup_tx_spends", !.pc = "tasks",
                         !.arg = tx, !.seen = {}]
    /\ UNCHANGED <<nodeVars, indexVars, poolVars>>

\* The outputs whose task is over.
Finished(loc) == {loc[i][1] : i \in DOMAIN loc}

\* The closure of `map` for output vout, up to the chain's answer:
\* `if is_spendable(txout) { self.chain.lookup_spend(outpoint) ...`.
SpendsTaskChain(vout) ==
    /\ q.op = "lookup_tx_spends" /\ q.pc = "tasks"
    /\ vout \in 0..(Len(q.arg.output) - 1)
    /\ vout \notin Finished(q.loc) \cup q.seen
    /\ IF ~is_spendable(q.arg.output[vout + 1])
       THEN q' = [q EXCEPT !.loc = Append(@, <<vout, None>>)]
       ELSE LET c == chain_lookup_spend(store, <<q.arg.txid, vout>>)
            IN IF c # None THEN q' = [q EXCEPT !.loc = Append(@, <<vout, c>>)]
               ELSE q' = [q EXCEPT !.seen = @ \cup {vout}]
    /\ UNCHANGED <<nodeVars, indexVars, poolVars>>

\* `.or_else(|| self.mempool().lookup_spend(outpoint))` of that closure.
SpendsTaskMempool(vout) ==
    /\ q.op = "lookup_tx_spends" /\ q.pc = "tasks"
    /\ vout \in q.seen
    /\ ~WriteLocked
    /\ q' = [q EXCEPT
               !.seen = @ \ {vout},
               !.loc = Append(@, <<vout,
                          mempool_lookup_spend(mp, <<q.arg.txid, vout>>)>>)]
    /\ UNCHANGED <<nodeVars, indexVars, poolVars>>

\* A collect that takes the results as the tasks finish.
collect_as_finished(loc, n) == [i \in 1..n |-> loc[i][2]]

\* `.collect()` of an indexed parallel iterator into a Vec: the result of
\* item i goes to place i.
collect(loc, n) ==
    [i \in 1..n |-> loc[CHOOSE j \in DOMAIN loc : loc[j][1] = i - 1][2]]

\* Every task is over: the Vec is returned.
SpendsCollect ==
    /\ q.op = "lookup_tx_spends" /\ q.pc = "tasks"
    /\ Finished(q.loc) = 0..(Len(q.arg.output) - 1)
    /\ q' = [q EXCEPT !.pc = "done",
                      !.res = collect(q.loc, Len(q.arg.output))]
    /\ UNCHANGED <<nodeVars, indexVars, poolVars>>

Spends ==
    \/ \E tx \in SpendsArgs : SpendsStart(tx)
    \/ \E vout \in 0..1 : SpendsTaskChain(vout) \/ SpendsTaskMempool(vout)
    \/ SpendsCollect
    \/ Finish

\* lookup_tx_spends against the node's mempool and the poll, on a chain
\* that stands still.
NextSpends ==
    /\ NodePool \/ MempoolUpdate \/ Spends
    /\ UNCHANGED <<kvVars, upd, spentAll>>

SpecSpends == InitSynced /\ [][NextSpends]_vars

(***************************************************************************)
(* Query::utxo against Indexer ticks and mempool polls, with the outpoints *)
(* that have had a spend since the call began.                             *)
(***************************************************************************)
\* The outpoints with a spending edge in the chain index or in the mirror.
SpentNow(st, m) ==
    {<<e[1], e[2]>> : e \in st.S} \cup {<<e[1], e[2]>> : e \in m.edges}

UtxoCall ==
    \/ \E s \in Scripts : UtxoChain(s)
    \/ UtxoLock \/ UtxoRetain \/ UtxoExtend \/ UtxoReturn
    \/ Finish

\* spentAll starts with the call, as the outpoints spent in the state the
\* call's first read sees, and loses what a later state of the call has no
\* spend for; it is empty when no call runs.
TrackSpent ==
    spentAll' =
        IF q'.op # "utxo" THEN {}
        ELSE IF q.pc = "idle" THEN SpentNow(store, mp)
        ELSE IF q.pc = "done" THEN spentAll
        ELSE spentAll \cap SpentNow(store', mp')

NextUtxo ==
    /\ Node \/ IndexerSteps \/ MempoolUpdate \/ UtxoCall
    /\ TrackSpent
    /\ UNCHANGED <<kvVars, upd>>

SpecUtxo == Init /\ [][NextUtxo]_vars

(***************************************************************************)
(* The confirmation status of a transaction, over stores as a rollback     *)
(* can leave them.                                                         *)
(***************************************************************************)
\* TransactionStatus::from(Option<BlockId>).
TransactionStatus(blockid) ==
    IF blockid = None
    THEN [confirmed |-> FALSE, block_height |-> None, block_hash |-> None]
    ELSE [confirmed |-> TRUE, block_height |-> Some(blockid[1][1]),
          block_hash |-> Some(blockid[1][2])]

\* Query::get_tx_status.
GetTxStatus(txid) ==
    /\ q.pc = "idle"
    /\ q' = [Idle EXCEPT !.op = "get_tx_status", !.pc = "done", !.arg = txid,
                         !.seen = tx_confirming_block(store, txid),
                         !.res = TransactionStatus(tx_confirming_block(store, txid)),
                         !.calls = 1]
    /\ UNCHANGED <<nodeVars, indexVars, poolVars>>

\* The index of the chain to tip after a rollback that deleted the H
\* mappings above height k and was interrupted before the other rows went.
LeftBehind(tip, k) == [IndexOf(tip) EXCEPT !.Hh = {r \in @ : r[1] <= k}]

\* The stores a status is asked on: complete indexes, interrupted
\* rollbacks, and an interrupted rollback followed by the new branch.
StatusStores ==
    {IndexOf(tip) : tip \in Hashes}
        \cup {LeftBehind(tip, k) : tip \in {"A2", "A3", "B2"}, k \in 0..1}
        \cup {RowsUnion(LeftBehind("A3", 1), BlockRows("B2"))}

\* The mirror is empty or holds one transaction.
InitStatus ==
    /\ InitNode
    /\ store \in StatusStores
    /\ ipc = "idle" /\ todo = << >> /\ ready = {} /\ fails = 0
    /\ target = "G" /\ tickCommits = 0
    /\ mp \in {EmptyMempool}
              \cup {mempool_add(EmptyMempool, store, t) : t \in {"t2", "t3"}}
    /\ readers = 0 /\ polled = FALSE
    /\ q = Idle /\ InitStore /\ upd = UpdIdle /\ spentAll = {}

NextStatus ==
    /\ (\E txid \in Txids : GetTxStatus(txid)) \/ Finish
    /\ UNCHANGED <<kvVars, upd, spentAll>>

SpecStatus == InitStatus /\ [][NextStatus]_vars

(***************************************************************************)
(* Calls that read nothing but their argument and the node's answer: fee   *)
(* estimates and the REST handlers' parameter handling.                    *)
(***************************************************************************)
\* `const CONF_TARGETS: [u16; 9]`.
CONF_TARGETS == <<2, 3, 4, 6, 10, 20, 144, 504, 1008>>

\* conf_target arguments tried, of type u16.
TargetArgs == {0, 1, 2, 5, 6, 144, 1008, 1009, 65535}

FeeRates == {1, 20}

\* Daemon::estimatesmartfee: the node estimates for targets 1..1008 when it
\* has the data, and answers with an error otherwise.
NodeEstimates(conf_target) ==
    {<<"Err", "unavailable">>}
        \cup IF conf_target \in 1..1008 THEN {<<"Ok", r>> : r \in FeeRates} ELSE {}

\* Result::ok.
ok(result) == IF result[1] = "Ok" THEN Some(result[2]) ELSE None

\* Query::estimate_fee, on the node's answer.
estimate_fee(answer) == ok(answer)

\* Query::estimate_fee.
EstimateFee(conf_target) ==
    /\ q.pc = "idle"
    /\ \E answer \in NodeEstimates(conf_target) :
          q' = [Idle EXCEPT !.op = "estimate_fee", !.pc = "done",
                            !.arg = conf_target, !.seen = answer,
                            !.res = estimate_fee(answer), !.calls = 1]

RECURSIVE filter_map_collect(_, _)
\* `.filter_map(..).collect()` into a HashMap, over the targets in order.
filter_map_collect(targets, answers) ==
    IF targets = << >> THEN << >>
    ELSE LET t == Head(targets)
             rest == filter_map_collect(Tail(targets), answers)
             fee == estimate_fee(answers[t])
         IN IF fee = None THEN rest
            ELSE [k \in {t} \cup DOMAIN rest |-> IF k = t THEN fee[1] ELSE rest[k]]

\* Query::estimate_fee_targets.
EstimateFeeTargets ==
    /\ q.pc = "idle"
    /\ \E answers \in [Range(CONF_TARGETS) ->
                          UNION {NodeEstimates(t) : t \in Range(CONF_TARGETS)}] :
          q' = [Idle EXCEPT !.op = "estimate_fee_targets", !.pc = "done",
                            !.seen = answers,
                            !.res = filter_map_collect(CONF_TARGETS, answers),
                            !.calls = Len(CONF_TARGETS)]

\* StatusCode::BAD_REQUEST, StatusCode::NOT_FOUND.
BAD_REQUEST == 400
NOT_FOUND == 404

\* The errors a handler can end with: what `?`, bail! and ok_or_else hand
\* to HttpError.  An error is <<type, message>>.
BadInputErrors ==
    {<<"ParseIntError", "invalid digit found in string">>,
     <<"HashError", "bad hex string length">>,
     <<"FromHexError", "Invalid character">>,
     <<"String", "Invalid scripthash">>,
     <<"String", "Address on invalid network">>}

AbsentErrors ==
    {<<"not_found", "Block not found">>,
     <<"not_found", "Transaction not found">>,
     <<"errors::Error",
       "getblock RPC error: {\"code\":-5,\"message\":\"Block not found\"}">>}

OtherErrors ==
    {<<"errors::Error", "sendrawtransaction RPC error">>,
     <<"errors::Error", "failed to read from the store">>,
     <<"serde_json::Error", "key must be a string">>,
     <<"encode::Error", "unexpected end of data">>,
     <<"FromUtf8Error", "invalid utf-8 sequence">>}

\* `impl From<String> for HttpError`.
from_string(msg) == <<BAD_REQUEST, msg>>

\* HttpError::generic.
generic == from_string("We encountered an error. Please try again later.")

\* HttpError::not_found.
not_found(msg) == <<NOT_FOUND, msg>>

\* The From impls of HttpError: the HttpError(status, message) of an error.
http_error(e) ==
    CASE e[1] = "String" -> from_string(e[2])
      [] e[1] = "not_found" -> not_found(e[2])
      [] e[1] = "ParseIntError" -> from_string("Invalid number")
      [] e[1] = "HashError" -> from_string("Invalid hash string")
      [] e[1] = "FromHexError" -> from_string("Invalid hex string")
      [] e[1] = "errors::Error" ->
           IF e[2] = "getblock RPC error: {\"code\":-5,\"message\":\"Block not found\"}"
           THEN not_found("Block not found")
           ELSE generic
      [] e[1] = "serde_json::Error" -> generic
      [] e[1] = "encode::Error" -> generic
      [] e[1] = "FromUtf8Error" -> generic

\* run_server, `handle_request(..).unwrap_or_else(|err| ..)`: the response
\* takes the status and the body of the HttpError.
ErrorResponse(e) ==
    /\ q.pc = "idle"
    /\ q' = [Idle EXCEPT !.op = "error", !.pc = "done", !.arg = e,
                         !.res = [status |-> http_error(e)[1],
                                  body |-> http_error(e)[2]]]

\* `const CHAIN_TXS_PER_PAGE: usize`.
CHAIN_TXS_PER_PAGE == 25

\* A path or query parameter is a string, here a sequence of characters.
Digits == <<"0", "1", "2", "3", "4", "5", "6", "7", "8", "9">>

IsDigit(c) == \E d \in DOMAIN Digits : Digits[d] = c
DigitValue(c) == (CHOOSE d \in DOMAIN Digits : Digits[d] = c) - 1

RECURSIVE parse_digits(_, _)
\* The digits of s onto acc, most significant first; an error on a
\* character that is no digit and when acc * 10 + digit exceeds u32::MAX
\* = 429496729 * 10 + 5 (checked_mul, checked_add).
parse_digits(s, acc) ==
    IF s = << >> THEN <<"Ok", acc>>
    ELSE IF ~IsDigit(Head(s)) THEN <<"Err", "InvalidDigit">>
    ELSE IF \/ acc > 429496729
            \/ acc = 429496729 /\ DigitValue(Head(s)) > 5
         THEN <<"Err", "Overflow">>
    ELSE parse_digits(Tail(s), acc * 10 + DigitValue(Head(s)))

\* `str::parse::<u32>`: an optional "+", then one digit at least.
parse_u32(s) ==
    LET digits == IF s # << >> /\ Head(s) = "+" THEN Tail(s) ELSE s
    IN IF digits = << >> THEN <<"Err", "Empty">> ELSE parse_digits(digits, 0)

\* `opt.map_or(default, |el| el.parse().unwrap_or(fallback))`.
map_or_parse(opt, default, fallback) ==
    IF opt = None THEN default
    ELSE IF parse_u32(opt[1])[1] = "Ok" THEN parse_u32(opt[1])[2] ELSE fallback

\* Iterator::skip and Iterator::take.
skip(s, k) == SubSeq(s, k + 1, Len(s))

\* take that does not stop.
take_all(s, k) == s

take(s, k) == SubSeq(s, 1, Min(k, Len(s)))

\* The strings tried as start index and as limit: short strings over a few
\* characters, and numbers around the u32 range.
ParamChars == {"0", "2", "3", "5", "x", "+"}
ParamStrings ==
    UNION {[1..len -> ParamChars] : len \in 0..MaxParamLen}
        \cup {<<"1", "0", "0">>,
              <<"2", "1", "4", "7", "4", "8", "3", "6", "4", "7">>,
              <<"0", "0", "0", "0", "0", "0", "0", "0", "0", "2", "5">>,
              <<"4", "2", "9", "4", "9", "6", "7", "2", "9", "6">>}

Params == {None} \cup {Some(p) : p \in ParamStrings}

\* The txids of a block of n transactions, in block order.
BlockTxids(n) == [i \in 1..n |-> i]

\* handle_request, GET /block/:hash/txs[/:start_index], for a block that is
\* found: the page of transactions, or the HttpError.
block_txs(txids, start_param, found) ==
    LET start_index == map_or_parse(start_param, 0, 0)
    IN IF start_index >= Len(txids)
       THEN <<"Err", not_found("start index out of range")>>
       ELSE IF start_index % CHAIN_TXS_PER_PAGE # 0
       THEN <<"Err", from_string("start index must be a multipication of 25")>>
       ELSE IF ~found THEN <<"Err", from_string("missing tx")>>
       ELSE <<"Ok", take(skip(txids, start_index), CHAIN_TXS_PER_PAGE)>>

\* The block sizes tried.
BlockSizes == {0, 1, 25, 26, 51}

\* GET /block/:hash/txs[/:start_index].
BlockTxsRequest(n, start_param, found) ==
    /\ q.pc = "idle"
    /\ q' = [Idle EXCEPT !.op = "block_txs", !.pc = "done",
                         !.arg = [n |-> n, start_index |-> start_param],
                         !.seen = found,
                         !.res = block_txs(BlockTxids(n), start_param, found)]

\* The limit without `.min(30u32)`.
limit_param_uncapped(opt) == map_or_parse(opt, 10, 10)

\* `query_params.get("limit").map_or(10u32, |el| el.parse().unwrap_or(10u32))
\* .min(30u32)`.
limit_param(opt) == Min(map_or_parse(opt, 10, 10), 30)

\* A request with a limit parameter, or with none.
ParseLimit(limit) ==
    /\ q.pc = "idle"
    /\ q' = [Idle EXCEPT !.op = "limit", !.pc = "done", !.arg = limit,
                         !.res = limit_param(limit)]

\* The handler is done with the result.
RestFinish ==
    /\ q.pc = "done"
    /\ q' = Idle

Rest ==
    \/ \E conf_target \in TargetArgs : EstimateFee(conf_target)
    \/ EstimateFeeTargets
    \/ \E e \in BadInputErrors \cup AbsentErrors \cup OtherErrors : ErrorResponse(e)
    \/ \E n \in BlockSizes : \E p \in Params : \E found \in BOOLEAN :
          BlockTxsRequest(n, p, found)
    \/ \E limit \in Params : ParseLimit(limit)
    \/ RestFinish

NextRest ==
    /\ Rest
    /\ UNCHANGED <<nodeVars, indexVars, poolVars, kvVars, upd, spentAll>>

SpecRest == Init /\ [][NextRest]_vars

(***************************************************************************)
(* GET /block-height/:height and the cache lifetime of its answer          *)
(* (src/src/rest.rs), against the node and the Indexer.                    *)
(***************************************************************************)
\* `const TTL_LONG: u32`, `const TTL_SHORT: u32`, `const CONF_FINAL: usize`.
TTL_LONG == 157784630
TTL_SHORT == 10
CONF_FINAL == 10

\* ChainQuery::header_by_height: the hash the height map has for height.
header_by_height(st, height) ==
    IF \E r \in st.Hh : r[1] = height
    THEN Some((CHOOSE r \in st.Hh : r[1] = height)[2])
    ELSE None

\* `a - b` on usize: the difference; for a < b a panic where the build
\* checks overflow, and where it does not the difference modulo 2^64,
\* kept as the distance below 2^64.
usize_sub(a, b) ==
    IF a >= b THEN {<<"Ok", a - b>>}
    ELSE {<<"Panic">>, <<"Wrapped", b - a>>}

\* `d >= CONF_FINAL` for a difference d of usize_sub: 2^64 minus a small
\* distance is above CONF_FINAL.
at_least_final(d) == IF d[1] = "Ok" THEN d[2] >= CONF_FINAL ELSE TRUE

\* ttl_by_depth for the difference d that the subtraction gave.
ttl_by_depth(height, d) ==
    IF height = None THEN TTL_SHORT
    ELSE IF at_least_final(d) THEN TTL_LONG ELSE TTL_SHORT

\* The heights asked for: those of the ledger and one above.
HeightArgs == 0..4

\* handle_request, GET /block-height/:height: `header_by_height(height)`,
\* not found for a height the chain does not have.
BlockHeightHeader(height) ==
    /\ q.pc = "idle"
    /\ LET header == header_by_height(store, height)
       IN q' = [Idle EXCEPT
                  !.op = "block_height", !.arg = height, !.loc = header,
                  !.pc = IF header = None THEN "done" ELSE "ttl",
                  !.res = IF header = None
                          THEN <<"Err", not_found("Block not found")>>
                          ELSE << >>]
    /\ UNCHANGED <<nodeVars, indexVars, poolVars>>

\* `let ttl = ttl_by_depth(Some(height), query)`, which reads the best
\* height now (kept in q.seen), and the answer.
BlockHeightTtl ==
    /\ q.op = "block_height" /\ q.pc = "ttl"
    /\ \E d \in usize_sub(best_height(store), q.arg) :
          IF d[1] = "Panic"
          THEN q' = [q EXCEPT !.pc = "panicked", !.seen = best_height(store)]
          ELSE q' = [q EXCEPT
                       !.pc = "done", !.seen = best_height(store),
                       !.res = <<"Ok", [body |-> q.loc[1],
                                        ttl |-> ttl_by_depth(Some(q.arg), d)]>>]
    /\ UNCHANGED <<nodeVars, indexVars, poolVars>>

BlockHeightRequest ==
    \/ \E height \in HeightArgs : BlockHeightHeader(height)
    \/ BlockHeightTtl
    \/ Finish
    \/ Unwind

NextTtl ==
    /\ (\E b \in Hashes : NodeNewTip(b)) \/ IndexerSteps \/ BlockHeightRequest
    /\ UNCHANGED <<kvVars, upd, spentAll>>

SpecTtl == Init /\ [][NextTtl]_vars

(***************************************************************************)
(* GET /blocks[/:start_height] (src/src/rest.rs, blocks), on chains long   *)
(* enough for the walk to reach its limit, while a rollback takes blocks   *)
(* off the tip.                                                            *)
(***************************************************************************)
\* `const BLOCK_LIMIT: usize`.
BLOCK_LIMIT == 10

\* The hashes of a chain of twelve blocks, genesis first.
LongHashes ==
    <<"b0", "b1", "b2", "b3", "b4", "b5", "b6", "b7", "b8", "b9", "b10", "b11">>

\* The number of blocks of the chains tried.
ChainLens == {1, 2, 10, 11, 12}

\* The header and meta rows of a chain of len blocks.
LinearStore(len) ==
    [EmptyRows EXCEPT
       !.Hh = {<<h, LongHashes[h + 1]>> : h \in 0..(len - 1)},
       !.B = {<<LongHashes[h + 1],
                IF h = 0 THEN NoHash ELSE LongHashes[h]>> : h \in 0..(len - 1)},
       !.M = {<<LongHashes[h + 1], 1>> : h \in 0..(len - 1)}]

\* ChainQuery::get_block_with_meta: the header row and the meta row of the
\* block, None when one of them is not there.
get_block_with_meta(st, hash) ==
    IF (\E b \in st.B : b[1] = hash) /\ (\E m \in st.M : m[1] = hash)
    THEN Some([hash |-> hash,
               prev_blockhash |-> (CHOOSE b \in st.B : b[1] = hash)[2],
               tx_count |-> (CHOOSE m \in st.M : m[1] = hash)[2]])
    ELSE None

\* BlockValue::from(blockhm).
BlockValue(blockhm) ==
    [id |-> blockhm.hash, previousblockhash |-> blockhm.prev_blockhash,
     tx_count |-> blockhm.tx_count]

\* The start heights tried, as the path segment gives them.
StartParams ==
    {None} \cup {Some(p) : p \in {<<"0">>, <<"1">>, <<"9">>, <<"1", "0">>,
                                  <<"1", "1">>, <<"1", "2">>, <<"x">>,
                                  <<"+", "1">>, << >>}}

\* `start_height.and_then(|height| height.parse::<usize>().ok())`; the
\* strings tried stay far below the range of u32 and of usize.
and_then_parse(opt) ==
    IF opt = None THEN None
    ELSE IF parse_u32(opt[1])[1] = "Ok" THEN Some(parse_u32(opt[1])[2])
    ELSE None

\* blocks, up to the loop: the hash to start from, or not found.  q.seen
\* keeps the height map the call began with.
BlocksStart(start_param) ==
    /\ q.pc = "idle"
    /\ LET start_height == and_then_parse(start_param)
           header == IF start_height = None THEN Some(best_hash(store))
                     ELSE header_by_height(store, start_height[1])
       IN IF header = None
          THEN q' = [Idle EXCEPT
                       !.op = "blocks", !.pc = "done", !.arg = start_param,
                       !.seen = store.Hh,
                       !.res = <<"Err", not_found("Block not found")>>]
          ELSE q' = [Idle EXCEPT
                       !.op = "blocks", !.pc = "loop", !.arg = start_param,
                       !.seen = store.Hh,
                       !.loc = [current_hash |-> header[1], values |-> << >>]]
    /\ UNCHANGED <<nodeVars, indexVars, poolVars>>

\* One turn of the loop with no limit on the turns.
BlocksStepNoLimit ==
    /\ q.op = "blocks" /\ q.pc = "loop"
    /\ LET blockhm == get_block_with_meta(store, q.loc.current_hash)
       IN IF blockhm = None
          THEN q' = [q EXCEPT !.pc = "done",
                             !.res = <<"Err", not_found("Block not found")>>]
          ELSE LET values == Append(q.loc.values, BlockValue(blockhm[1]))
                   current_hash == blockhm[1].prev_blockhash
               IN IF current_hash = NoHash
                  THEN q' = [q EXCEPT !.pc = "done", !.res = <<"Ok", values>>,
                                     !.loc = [current_hash |-> current_hash,
                                              values |-> values]]
                  ELSE q' = [q EXCEPT !.loc = [current_hash |-> current_hash,
                                              values |-> values]]
    /\ UNCHANGED <<nodeVars, indexVars, poolVars>>

\* One turn of `for _ in 0..BLOCK_LIMIT`: the block of current_hash or not
\* found, its value pushed, and the end of the walk at a prev_blockhash of
\* zeros or after the last turn.
BlocksStep ==
    /\ q.op = "blocks" /\ q.pc = "loop"
    /\ LET blockhm == get_block_with_meta(store, q.loc.current_hash)
       IN IF blockhm = None
          THEN q' = [q EXCEPT !.pc = "done",
                             !.res = <<"Err", not_found("Block not found")>>]
          ELSE LET values == Append(q.loc.values, BlockValue(blockhm[1]))
                   current_hash == blockhm[1].prev_blockhash
               IN IF current_hash = NoHash \/ Len(values) = BLOCK_LIMIT
                  THEN q' = [q EXCEPT !.pc = "done", !.res = <<"Ok", values>>,
                                     !.loc = [current_hash |-> current_hash,
                                              values |-> values]]
                  ELSE q' = [q EXCEPT !.loc = [current_hash |-> current_hash,
                                              values |-> values]]
    /\ UNCHANGED <<nodeVars, indexVars, poolVars>>

\* A rollback takes the best block out of the index.
RollbackTip ==
    /\ best_height(store) > 0
    /\ LET tip == best_hash(store)
       IN store' = [store EXCEPT
                      !.Hh = {r \in @ : r[2] # tip},
                      !.B = {r \in @ : r[1] # tip},
                      !.M = {r \in @ : r[1] # tip}]
    /\ UNCHANGED <<nodeVars, ipc, todo, ready, fails, target, tickCommits,
                   poolVars, q>>

InitBlocks ==
    /\ InitNode /\ InitPool /\ q = Idle /\ InitStore
    /\ upd = UpdIdle /\ spentAll = {}
    /\ \E len \in ChainLens : store = LinearStore(len)
    /\ ipc = "idle" /\ todo = << >> /\ ready = {} /\ fails = 0
    /\ target = "G" /\ tickCommits = 0

NextBlocks ==
    /\ \/ \E start_param \in StartParams : BlocksStart(start_param)
       \/ BlocksStep
       \/ RollbackTip
       \/ Finish
    /\ UNCHANGED <<kvVars, upd, spentAll>>

SpecBlocks == InitBlocks /\ [][NextBlocks]_vars

(***************************************************************************)
(* Properties of the Query layer (Spec).                                   *)
(***************************************************************************)
\* Query::lookup_txn on one chain and mempool state.
query_lookup_txn(st, m, txid) ==
    IF chain_lookup_txn(st, txid) # None THEN chain_lookup_txn(st, txid)
    ELSE mempool_lookup_txn(m, txid)

\* The positions of the chain utxos whose outpoint has no mempool spend.
Survivors ==
    {k \in DOMAIN q.seen :
        ~\E e \in mp.edges : e[1] = q.seen[k].txid /\ e[2] = q.seen[k].vout}

\* C1: the list Query.utxo returns is the chain list without the entries
\* whose outpoint has a mempool spend, in the chain's order, followed by the
\* mempool's list; nothing else.
UtxoIsChainMinusSpentPlusMempool ==
    (q.op = "utxo" /\ q.pc = "return") =>
        LET m == mempool_utxo(mp, q.arg)
            n == Cardinality(Survivors)
        IN /\ Len(q.loc) = n + Len(m)
           /\ \A k \in Survivors :
                 q.loc[Cardinality({j \in Survivors : j <= k})] = q.seen[k]
           /\ \A j \in DOMAIN m : q.loc[n + j] = m[j]

\* A chain entry was dropped, another kept and a mempool entry appended.
UtxoMixedCase ==
    /\ q.op = "utxo" /\ q.pc = "return"
    /\ Survivors # {}
    /\ Survivors # DOMAIN q.seen
    /\ mempool_utxo(mp, q.arg) # << >>

\* C2: Query.history_txids lists each txid at most once, and tags a txid
\* with a BlockId exactly when the txid has a Tx confirm row.
HistoryTxidsDisjoint ==
    (q.op = "history_txids" /\ q.pc = "done") =>
        /\ \A i, j \in DOMAIN q.res : q.res[i][1] = q.res[j][1] => i = j
        /\ \A i \in DOMAIN q.res : q.res[i][2] # None <=> q.res[i][1] \in q.seen

\* C3: right after broadcast_raw returned Ok(T), before any poll,
\* lookup_txn(T) finds the transaction and has_spend holds for the previous
\* outpoint of each of its non-coinbase inputs.
BroadcastVisible ==
    (q.op = "broadcast_raw" /\ q.pc = "done" /\ q.res[1] = "Ok" /\ ~polled) =>
        LET T == q.res[2]
        IN /\ query_lookup_txn(store, mp, T) = Some(Tx(T))
           /\ \A i \in DOMAIN TxInputs(T) :
                 ~is_coinbase_input(TxInputs(T)[i]) => has_spend(mp, TxInputs(T)[i])

\* broadcast_raw returned Ok for a transaction the chain does not hold.
BroadcastReturnedOk ==
    /\ q.op = "broadcast_raw" /\ q.pc = "done" /\ q.res[1] = "Ok" /\ ~polled
    /\ chain_lookup_txn(store, q.res[2]) = None

\* C4: a lookup returns the chain's answer when the chain has one, asks the
\* mempool only when the chain has none, and then returns the mempool's
\* answer (absent when that is absent too).
LookupChainFirst ==
    [][/\ (q.pc = "idle" /\ q'.op \in Lookups) =>
            LET c == ChainLookup(q'.op, store, q'.arg)
            IN IF c # None THEN q'.pc = "done" /\ q'.res = c
               ELSE q'.pc = "mempool"
       /\ (q.op \in Lookups /\ q.pc = "mempool" /\ q'.pc = "done") =>
            /\ q.seen = None
            /\ q'.res = MempoolLookup(q.op, mp, q.arg)]_vars

\* lookup_spend answered from the chain while the mempool holds another
\* spender of the same outpoint.
LookupShadowed ==
    /\ q.op = "lookup_spend" /\ q.pc = "done"
    /\ q.res # None
    /\ q.res = chain_lookup_spend(store, q.arg)
    /\ mempool_lookup_spend(mp, q.arg) # None
    /\ mempool_lookup_spend(mp, q.arg)[1].txid # q.res[1].txid

\* C5: an error of sendrawtransaction is what broadcast_raw returns, after
\* one call to the broadcaster, without the mempool write lock and without
\* a change to the mirror.
BroadcastErrorReturned ==
    /\ [](q.op = "broadcast_raw" /\ q.pc = "done" /\ q.res[1] = "Err" =>
            q.res = q.seen /\ q.calls = 1 /\ ~q.wlocked)
    /\ [][(q'.op = "broadcast_raw" /\ q'.pc = "done" /\ q'.res[1] = "Err"
           /\ q' # q) => (mp' = mp /\ readers' = readers)]_vars

\* The node rejected a transaction that conflicts with one it holds.
BroadcastRejected ==
    /\ q.op = "broadcast_raw" /\ q.pc = "done"
    /\ q.res = <<"Err", "rejected">>
    /\ nodePool # {}

(***************************************************************************)
(* Properties of the Indexer and of the confirmed index (SpecIndexer).     *)
(***************************************************************************)
\* The blocks of the local best chain, traced from the height map.
LocalChain == ChainOf(best_hash(store))
LocalTxs == ChainTxs(best_hash(store))

\* txid has a confirm row that names a block of the height map.
OnBestChain(txid, height) ==
    \E c \in store.C : c[1] = txid /\ c[3] = height /\ <<c[3], c[2]>> \in store.Hh

\* C6: after a tick, every S, h, H-history and C row references a block b
\* at a height n with H[n] = b.
NoOrphanReferences ==
    ipc = "idle" =>
        /\ \A c \in store.C : <<c[3], c[2]>> \in store.Hh
        /\ \A r \in store.hist : OnBestChain(r[3], r[2])
        /\ \A r \in store.h : OnBestChain(r[3], r[2])
        /\ \A e \in store.S :
              \E c \in store.C : c[1] = e[3] /\ <<c[3], c[2]>> \in store.Hh

\* A tick rolled block A2 back (its header row stays) and applied B2.
ReorgCompleted ==
    /\ ipc = "idle"
    /\ <<2, "B2">> \in store.Hh
    /\ <<"A2", "A1">> \in store.B
    /\ store.S # {}

\* C7: for every script the confirmed utxo list holds, once each, the
\* outpoints funded to the script on the local best chain that no
\* transaction of that chain spends.
ConfirmedUtxoIsFundedMinusSpent ==
    \A s \in Scripts :
        LET us == chain_utxo(store, s)
            funded == {op \in FundedBy(LocalTxs) : PrevScript(op) = s}
        IN /\ {OutPointOf(us[i]) : i \in DOMAIN us} = funded \ SpentBy(LocalTxs)
           /\ Cardinality({OutPointOf(us[i]) : i \in DOMAIN us}) = Len(us)

\* After the reorganization from A3 to B2, X holds the untouched coinbase
\* output and the output of t3.
UtxoAfterDeepReorg ==
    /\ best_hash(store) = "B2"
    /\ <<"A3", "A2">> \in store.B
    /\ {OutPointOf(u) : u \in Range(chain_utxo(store, "X"))}
          = {<<"cb1", 1>>, <<"t3", 0>>}

\* C9: a commit adds the batch of one block, at the height right above the
\* committed tip and on top of the block committed below it.
CommitsAscend ==
    [][store'.Hh \ store.Hh # {} =>
          \E r \in store'.Hh :
             /\ store'.Hh \ store.Hh = {r}
             /\ r[1] = best_height(store) + 1
             /\ <<r[1] - 1, BlockPrev(r[2])>> \in store.Hh]_vars

\* A batch was committed while the rows of a later block, generated ahead
\* of it, wait in the reorder buffer.
CommittedWithLaterRowsReady ==
    /\ ipc = "applying"
    /\ tickCommits >= 1
    /\ todo # << >>
    /\ ready # {}
    /\ Head(todo) \notin ready

SameIndex(a, b) == \A f \in Families \ {"B"} : a[f] = b[f]

\* C10: a failing step commits nothing; the store always holds exactly the
\* batches of the blocks up to its tip; and the ticks after a failure bring
\* it to the index of the node's chain.
FailedTickCommitsNothing ==
    /\ [](SameIndex(store, IndexOf(best_hash(store))))
    /\ [][fails' # fails => store' = store]_vars
    /\ <>[](SameIndex(store, IndexOf(nodeTip)))

\* A tick failed and the store has caught up with a chain of three blocks
\* all the same.
RecoveredAfterFailure ==
    /\ fails >= 1
    /\ ipc = "idle"
    /\ best_hash(store) = nodeTip
    /\ BlockHeight(nodeTip) >= 2

(***************************************************************************)
(* Properties of the Store (SpecStore).                                    *)
(***************************************************************************)
\* C8: the content a get sees, the content an iterator walks and the
\* content that survives a crash are each the content between two batches,
\* never part of a batch; and a batch persist has returned for is on disk.
PersistIsAtomicAndDurable ==
    /\ db \in snaps
    /\ disk \in snaps
    /\ rd.op = "scan" => rd.snap \in snaps
    /\ rd.op = "scan" =>
          \A i \in DOMAIN rd.rows : rd.snap[rd.rows[i][1]] = rd.rows[i][2]
    /\ rd.op = "get" =>
          \E d \in snaps :
             IF rd.rows = << >> THEN d[rd.key] = Absent
             ELSE d[rd.key] = rd.rows[1][2]
    /\ wr.pc = "returned" =>
          \A k \in Keys :
             (\E i \in DOMAIN wr.batch : wr.batch[i][1] = k) =>
                 disk[k] = persists /\ db[k] = persists

\* A scan is under way on the content from before a batch of two keys that
\* persist has since written and returned for.
ScanAcrossPersist ==
    /\ rd.op = "scan" /\ rd.pc = "loop"
    /\ rd.rows # << >>
    /\ rd.snap # db
    /\ wr.pc = "returned"
    /\ \E i, j \in DOMAIN wr.batch : wr.batch[i][1] # wr.batch[j][1]

(***************************************************************************)
(* Properties of the mempool mirror and its lock (SpecMempool).            *)
(***************************************************************************)
\* The mirror holds nothing derived from t.
NoStateOf(m, t) ==
    /\ t \notin m.txstore
    /\ \A s \in Scripts : \A i \in DOMAIN m.history[s] : m.history[s][i][1] # t
    /\ \A e \in m.edges : e[3] # t
    /\ \A f \in m.feeinfo : f[1] # t

\* C11: when a poll is through, the mirror holds nothing derived from a txid
\* the node no longer reported (no txstore entry, history row, edge or
\* feeinfo), and Query.utxo returns every chain utxo whose outpoint no
\* transaction of the mirror spends.
EvictionUnlinksAll ==
    /\ [][(upd.pc = "locked" /\ upd'.pc = "idle") =>
            \A t \in upd.removed : NoStateOf(mp', t)]_vars
    /\ []((q.op = "utxo" /\ q.pc = "return") =>
            \A k \in DOMAIN q.seen :
               OutPointOf(q.seen[k]) \notin SpentBy(mp.txstore) =>
                  q.seen[k] \in Range(q.loc))

\* The last poll unlinked the only spender of a confirmed outpoint, and
\* Query.utxo returns that outpoint.
UtxoBackAfterEviction ==
    /\ q.op = "utxo" /\ q.pc = "return"
    /\ upd.pc = "idle"
    /\ \E t \in upd.removed : \E k \in DOMAIN q.seen :
          /\ OutPointOf(q.seen[k]) \in SpentBy({t})
          /\ OutPointOf(q.seen[k]) \notin SpentBy(mp.txstore)
          /\ q.seen[k] \in Range(q.loc)

\* t is in the mirror with its edges and its funding rows.
WhollyIn(m, t) ==
    /\ t \in m.txstore
    /\ \A i \in DOMAIN TxInputs(t) :
          ~is_coinbase_input(TxInputs(t)[i]) =>
             <<TxInputs(t)[i][1], TxInputs(t)[i][2], t, i - 1>> \in m.edges
    /\ \A o \in DOMAIN TxOutputs(t) :
          \E i \in DOMAIN m.history[TxOutputs(t)[o][1]] :
             m.history[TxOutputs(t)[o][1]][i]
                = <<t, "funding", o - 1, TxOutputs(t)[o][2]>>

\* No transaction is partly inserted or partly removed.
MirrorWhole(m) == \A t \in Txids : WhollyIn(m, t) \/ NoStateOf(m, t)

\* The handler reads the mirror in this step.
QueryReadsMempool ==
    \/ q.op = "utxo" /\ q.pc \in {"retain", "extend"}
    \/ q.pc = "mempool" /\ q'.pc = "done"
    \/ q.pc = "idle" /\ q'.op = "lookup_txos"

\* C12: the mirror changes only under the write lock (a step of the poll,
\* or the add of broadcast_raw), never while a reader holds the read lock;
\* a query reads it only while no writer holds the lock, and then no
\* transaction is partly inserted or removed; while Query.utxo holds its
\* read guard the mirror does not change.
MempoolLockDiscipline ==
    /\ [](~(WriteLocked /\ readers > 0))
    /\ [][mp' # mp =>
            /\ readers = 0
            /\ \/ upd.pc = "locked" /\ upd'.pc = "locked"
               \/ /\ q.op = "broadcast_raw" /\ q.pc = "add" /\ q'.wlocked
                  /\ ~WriteLocked]_vars
    /\ [][QueryReadsMempool => ~WriteLocked /\ MirrorWhole(mp)]_vars
    /\ [][readers > 0 => mp' = mp]_vars

\* A poll has a transaction partly unlinked or partly added while
\* Query.utxo waits for the read lock.
ReaderWaitsForPoll ==
    /\ WriteLocked
    /\ ~MirrorWhole(mp)
    /\ q.op = "utxo" /\ q.pc = "lock"

(***************************************************************************)
(* Properties of Store::scan (SpecStore).                                  *)
(***************************************************************************)
HasPrefix(key, prefix) ==
    /\ Len(key) >= Len(prefix)
    /\ SubSeq(key, 1, Len(prefix)) = prefix

\* The rows of d whose key begins with prefix, in ascending key order.
PrefixRows(d, prefix) ==
    LET ks == SelectSeq(IterKeys(d), LAMBDA k : HasPrefix(k, prefix))
    IN [i \in DOMAIN ks |-> <<ks[i], d[ks[i]]>>]

\* C13: a scan that has left its loop has returned, with exactly the rows
\* of the store whose key begins with the prefix, in ascending key order.
ScanReturnsPrefixRows ==
    (rd.op = "scan" /\ rd.pc # "loop") =>
        /\ rd.pc = "done"
        /\ rd.rows = PrefixRows(rd.snap, rd.key)

(***************************************************************************)
(* Properties of the fee estimates and the REST handlers (SpecRest).       *)
(***************************************************************************)
\* C14: estimate_fee returns absent for a conf_target outside CONF_TARGETS,
\* and the keys of estimate_fee_targets are exactly the targets of
\* CONF_TARGETS for which the node returned an estimate.
FeeTargetsAreTheFixedSet ==
    /\ (q.op = "estimate_fee" /\ q.pc = "done"
           /\ q.arg \notin Range(CONF_TARGETS)) => q.res = None
    /\ (q.op = "estimate_fee_targets" /\ q.pc = "done") =>
          DOMAIN q.res = {t \in Range(CONF_TARGETS) : q.seen[t][1] = "Ok"}

\* C15: the response to a malformed-input error has status 400, to an
\* absent result status 404, and to any other error status 500 with the
\* generic message.
ErrorStatusByKind ==
    (q.op = "error" /\ q.pc = "done") =>
        /\ q.arg \in BadInputErrors => q.res.status = 400
        /\ q.arg \in AbsentErrors => q.res.status = 404
        /\ q.arg \in OtherErrors =>
              /\ q.res.status = 500
              /\ q.res.body = generic[2]

\* C16: Query.lookup_txos asks the mempool, once; the mempool's answer,
\* from its txstore or else from the chain, is what the caller gets, and
\* when the lookup fails the caller gets the error as a value.
TxosErrorIsReturned ==
    (q.op = "lookup_txos" /\ q.pc # "idle") =>
        /\ q.calls = 1
        /\ q.pc = "done"
        /\ q.seen[1] = "Ok" => q.res = q.seen[2]
        /\ q.seen[1] = "Err" => q.res = q.seen

RECURSIVE StripZeros(_)
StripZeros(ds) ==
    IF Len(ds) > 1 /\ ds[1] = "0" THEN StripZeros(Tail(ds)) ELSE ds

\* The numeral ds, without leading zeros, is at most 4294967295.
BelowTwoTo32(ds) ==
    LET max == <<"4", "2", "9", "4", "9", "6", "7", "2", "9", "5">>
    IN \/ Len(ds) < Len(max)
       \/ /\ Len(ds) = Len(max)
          /\ \/ ds = max
             \/ \E i \in DOMAIN ds :
                   /\ DigitValue(ds[i]) < DigitValue(max[i])
                   /\ \A j \in 1..(i - 1) : ds[j] = max[j]

\* The number a parameter string denotes when it is a decimal numeral (with
\* an optional "+") of a value below 2^32, and -1 otherwise.
Denoted(s) ==
    LET signless == IF s # << >> /\ s[1] = "+" THEN SubSeq(s, 2, Len(s)) ELSE s
        ds == StripZeros(signless)
    IN IF /\ ds # << >>
          /\ \A i \in DOMAIN ds : IsDigit(ds[i])
          /\ BelowTwoTo32(ds)
       THEN Sum([i \in DOMAIN ds |-> DigitValue(ds[i]) * 10^(Len(ds) - i)])
       ELSE -1

\* The value of an optional parameter, with a default for a parameter
\* that is missing or denotes no number.
ParamOr(opt, default) ==
    IF opt = None \/ Denoted(opt[1]) = -1 THEN default ELSE Denoted(opt[1])

\* C17: GET /block/:hash/txs/:start_index answers with transactions only
\* for a start index that is a multiple of 25 and below the number n of
\* transactions, and then with those at positions start_index ..
\* min(start_index + 25, n), in block order; a start index of n or more is
\* not found, another one that is no multiple of 25 is a bad request; a
\* missing or unparseable start index counts as 0.
BlockTxsPage ==
    (q.op = "block_txs" /\ q.pc = "done") =>
        LET n == q.arg.n
            start == ParamOr(q.arg.start_index, 0)
            last == Min(start + 25, n)
        IN /\ q.res[1] = "Ok" =>
                 /\ start % 25 = 0 /\ start < n
                 /\ q.res[2] = [i \in 1..(last - start) |-> start + i]
           /\ start >= n => q.res = <<"Err", <<404, "start index out of range">> >>
           /\ (start < n /\ start % 25 # 0) =>
                 q.res[1] = "Err" /\ q.res[2][1] = 400
           /\ (start < n /\ start % 25 = 0 /\ q.seen) => q.res[1] = "Ok"

\* The last page of a block of 51 transactions: one transaction.
BlockTxsLastPage ==
    /\ q.op = "block_txs" /\ q.pc = "done"
    /\ q.arg.n = 51
    /\ q.arg.start_index = Some(<<"5", "0">>)
    /\ q.res = <<"Ok", <<51>> >>

(***************************************************************************)
(* Properties of the confirmation status (SpecStatus).                     *)
(***************************************************************************)
\* The C rows of txid whose block is the one H maps their height to.
ValidConfirms(st, txid) ==
    {c \in st.C : c[1] = txid /\ \E r \in st.Hh : r[1] = c[3] /\ r[2] = c[2]}

\* C18: get_tx_status says confirmed exactly when the C row of the txid
\* names a block b at a height n with H[n] = b, and then reports that
\* block; a C row whose block H does not map yields unconfirmed, also for
\* a transaction the mempool mirror holds.
ConfirmedOnlyOnBestChain ==
    (q.op = "get_tx_status" /\ q.pc = "done") =>
        /\ q.res.confirmed <=> ValidConfirms(store, q.arg) # {}
        /\ q.res.confirmed =>
              \E c \in ValidConfirms(store, q.arg) :
                 /\ q.res.block_height = Some(c[3])
                 /\ q.res.block_hash = Some(c[2])
        /\ ~q.res.confirmed =>
              q.res.block_height = None /\ q.res.block_hash = None

\* The status of a transaction whose C row was left behind (H maps its
\* height to another block) and which the mempool mirror holds.
LeftBehindIsUnconfirmed ==
    /\ q.op = "get_tx_status" /\ q.pc = "done"
    /\ \E c \in store.C : c[1] = q.arg /\ \E r \in store.Hh : r[1] = c[3] /\ r[2] # c[2]
    /\ q.arg \in mp.txstore
    /\ ~q.res.confirmed

(***************************************************************************)
(* Properties of compact_if_needed (SpecCompact).                          *)
(***************************************************************************)
\* An earlier call got as far as writing the marker.
MarkerWritten == \E d \in snaps : d[MarkerKey] # Absent

\* The writer's step is a call that goes on to compact.
CallCompacts == wr.pc = "idle" /\ wr'.pc = "compact"

\* The writer's step is a call that finds the marker and returns.
CallSkips == wr.pc = "idle" /\ wr'.pc = "skipped"

\* No step takes a row of the index out of the store, puts one in or
\* changes its value.
RowsKept == \A k \in Keys : db'[k] = db[k] /\ disk'[k] = disk[k]

\* C19 as stated: a call compacts only while no earlier call has written
\* the marker -- every call after that one, restarts included, finds the
\* marker and changes nothing; a crash before the marker is written leaves
\* the next call to compact again; and compaction adds, removes and alters
\* no row of the index.
CompactsOnceForAll ==
    [][/\ CallCompacts => ~MarkerWritten
       /\ CallSkips => db' = db /\ disk' = disk
       /\ (wr.pc = "compact" /\ db' = disk /\ wr'.pc = "idle") =>
              db'[MarkerKey] = Absent
       /\ RowsKept]_vars

\* C19, amended: a call compacts exactly when it does not find the marker,
\* and then writes it; a call that finds it changes nothing; the marker is
\* found by every call once it is on disk, and before that by every call
\* that no crash precedes; a crash before the marker is on disk leaves the
\* next call to compact again; and compaction adds, removes and alters no
\* row of the index.
CompactionIsIdempotent ==
    [][/\ CallCompacts => db[MarkerKey] = Absent /\ disk[MarkerKey] = Absent
       /\ CallSkips => db[MarkerKey] # Absent /\ db' = db /\ disk' = disk
       /\ (wr.pc = "mark" /\ db' # disk) => db'[MarkerKey] # Absent
       /\ disk[MarkerKey] # Absent =>
              disk'[MarkerKey] # Absent /\ db'[MarkerKey] # Absent
       /\ (db[MarkerKey] # Absent /\ db'[MarkerKey] = Absent) =>
              db' = disk /\ wr'.pc = "idle"
       /\ (wr.pc = "compact" /\ db' = disk /\ wr'.pc = "idle") =>
              db'[MarkerKey] = Absent
       /\ RowsKept]_vars

\* A call on a store that holds rows has found the marker, which is on
\* disk, and is about to return.
SecondCallSkips ==
    /\ wr.pc = "skipped"
    /\ disk[MarkerKey] # Absent
    /\ \E k \in Keys : db[k] # Absent

\* A call compacts although an earlier call wrote the marker: a crash took
\* the marker before it was on disk.
CompactsAgainAfterCrash ==
    /\ wr.pc = "compact"
    /\ MarkerWritten
    /\ db[MarkerKey] = Absent

\* C20: the page limit is 10 for a limit parameter that is missing or is
\* no numeral of an unsigned 32-bit value, and otherwise the smaller of the
\* number the parameter denotes and 30; it always lies in 0..30.
LimitIsParsedAndCapped ==
    q.op = "limit" =>
        /\ (q.arg = None \/ Denoted(q.arg[1]) = -1) => q.res = 10
        /\ (q.arg # None /\ Denoted(q.arg[1]) # -1) =>
              q.res = Min(Denoted(q.arg[1]), 30)
        /\ q.res \in 0..30

\* A limit of 100 has been cut down to 30.
LimitAboveCap ==
    /\ q.op = "limit"
    /\ q.arg = Some(<<"1", "0", "0">>)
    /\ q.res = 30

(***************************************************************************)
(* Properties of lookup_tx_spends (SpecSpends).                            *)
(***************************************************************************)
\* What Query::lookup_spend answers for op in the state at hand.
QueryLookupSpend(op) ==
    IF chain_lookup_spend(store, op) # None THEN chain_lookup_spend(store, op)
    ELSE mempool_lookup_spend(mp, op)

\* The result the task of output vout left, None while it runs.
TaskResult(loc, vout) ==
    IF vout \in Finished(loc)
    THEN Some(loc[CHOOSE j \in DOMAIN loc : loc[j][1] = vout][2])
    ELSE None

\* C21: lookup_tx_spends(tx) returns one entry per output of tx, in the
\* order of the outputs whatever the order in which the lookups finish:
\* the entry of output i is what lookup_spend((txid, i)) answers when the
\* lookup of that output ends if the output is spendable, and None if it
\* is not.
TxSpendsByOutput ==
    [][q'.op = "lookup_tx_spends" =>
         /\ \A vout \in 0..(Len(q'.arg.output) - 1) :
               (TaskResult(q.loc, vout) = None
                    /\ TaskResult(q'.loc, vout) # None) =>
                  TaskResult(q'.loc, vout)[1] =
                      IF is_spendable(q'.arg.output[vout + 1])
                      THEN QueryLookupSpend(<<q'.arg.txid, vout>>)
                      ELSE None
         /\ q'.pc = "done" =>
               /\ Len(q'.res) = Len(q'.arg.output)
               /\ \A vout \in 0..(Len(q'.arg.output) - 1) :
                     Some(q'.res[vout + 1]) = TaskResult(q'.loc, vout)]_vars

\* The lookup of the second output was over before that of the first, the
\* first output has a spend and the second has none.
SpendsFinishedOutOfOrder ==
    /\ q.op = "lookup_tx_spends" /\ q.pc = "done"
    /\ q.loc[1][1] = 1
    /\ q.res[1] # None
    /\ q.res[2] = None
    /\ \A o \in DOMAIN q.arg.output : is_spendable(q.arg.output[o])

(***************************************************************************)
(* Properties of ttl_by_depth (SpecTtl).                                   *)
(***************************************************************************)
\* C23: the answer for a height h that the chain has carries the long TTL
\* when the best height read by ttl_by_depth (q.seen) minus h, as a
\* difference of integers, is at least CONF_FINAL, and the short TTL
\* otherwise, a best height below h included: the subtraction neither
\* wraps into the long TTL nor panics.
TtlByTrueDepth ==
    (q.op = "block_height" /\ q.pc \in {"done", "panicked"} /\ q.loc # None) =>
        /\ q.pc = "done"
        /\ q.res[1] = "Ok"
        /\ q.res[2].ttl =
              IF q.seen - q.arg >= CONF_FINAL THEN TTL_LONG ELSE TTL_SHORT

(***************************************************************************)
(* Properties of Query::utxo under concurrency (SpecUtxo).                 *)
(***************************************************************************)
\* C22: whatever the Indexer and the poll do during a utxo call, the
\* result names no outpoint twice and names no outpoint that had a spend,
\* in the chain index or in the mirror, at every moment of the call.
UtxoOncePerOutpointAndUnspent ==
    (q.op = "utxo" /\ q.pc = "done") =>
        /\ \A i, j \in DOMAIN q.res :
              i # j => OutPointOf(q.res[i]) # OutPointOf(q.res[j])
        /\ \A i \in DOMAIN q.res : OutPointOf(q.res[i]) \notin spentAll

(***************************************************************************)
(* Properties of the block listing (SpecBlocks).                           *)
(***************************************************************************)
\* The hash the height map hh has for the start of the walk: that of the
\* start height when the parameter denotes one, that of the best height
\* when it is missing or denotes none; None for a height hh has not.
FirstOfWalk(hh, start_param) ==
    LET height == IF start_param = None \/ Denoted(start_param[1]) = -1
                  THEN Max({r[1] : r \in hh})
                  ELSE Denoted(start_param[1])
    IN IF \E r \in hh : r[1] = height
       THEN Some((CHOOSE r \in hh : r[1] = height)[2])
       ELSE None

\* C24: the walk of GET /blocks ends within BLOCK_LIMIT turns; its answer
\* is either 1 to 10 blocks, the first being the block at the start height
\* (the tip without a valid start height), each next one the block named
\* by the prev_blockhash before it, the last one being the genesis block
\* or the tenth, or it is the not-found error and no list, which it is
\* when the start height is not there.
BlocksListing ==
    q.op = "blocks" =>
        /\ q.pc = "loop" =>
              /\ Len(q.loc.values) < BLOCK_LIMIT
              /\ q.loc.current_hash # NoHash
              /\ ENABLED BlocksStep
        /\ (q.pc = "done" /\ q.res[1] = "Ok") =>
              LET values == q.res[2]
              IN /\ Len(values) \in 1..10
                 /\ Some(values[1].id) = FirstOfWalk(q.seen, q.arg)
                 /\ \A i \in 1..(Len(values) - 1) :
                       /\ values[i].previousblockhash # NoHash
                       /\ values[i + 1].id = values[i].previousblockhash
                 /\ \/ values[Len(values)].previousblockhash = NoHash
                    \/ Len(values) = 10
        /\ (q.pc = "done" /\ q.res[1] = "Err") =>
              q.res = <<"Err", <<NOT_FOUND, "Block not found">> >>
        /\ (q.pc = "done" /\ FirstOfWalk(q.seen, q.arg) = None) =>
              q.res[1] = "Err"

\* A walk from the tip of a chain of more than ten blocks has ended after
\* the tenth, short of the genesis block.
BlocksCutAtLimit ==
    /\ q.op = "blocks" /\ q.pc = "done"
    /\ q.res[1] = "Ok"
    /\ Len(q.res[2]) = 10
    /\ q.res[2][10].previousblockhash # NoHash
    /\ q.arg = None

\* A walk has failed on a block that a rollback took out after the walk
\* had listed blocks.
BlocksFailedMidWalk ==
    /\ q.op = "blocks" /\ q.pc = "done"
    /\ q.res[1] = "Err"
    /\ q.loc # << >>
    /\ q.loc.values # << >>
====
